---- MODULE Spec2Model ----
(***************************************************************************)
(* A model of GroveDB: a hierarchy of Merk subtrees addressed by paths,    *)
(* the root tree over the top-level subtrees, the single-operation insert  *)
(* with hash propagation, the temp_* copies used while a transaction is    *)
(* open, and the batch engine (insert_unique_op, validate_batch,           *)
(* apply_body, apply_batch).                                               *)
(***************************************************************************)
EXTENDS Integers, Sequences, FiniteSets, TLC

(***************************************************************************)
(* Bounds of the model.                                                    *)
(***************************************************************************)
MaxSteps == 2
MaxBatch == 2

(* Keys are byte strings; the model uses two one-byte keys. *)
K1 == <<1>>
K2 == <<2>>
Keys == {K1, K2}

(* Subtree paths have one to three segments. *)
Paths1 == {<<k>> : k \in Keys}
Paths2 == {<<k, l>> : k \in Keys, l \in Keys}
Paths3 == {<<k, l, m>> : k \in Keys, l \in Keys, m \in Keys}
SubtreePaths == Paths1 \cup Paths2 \cup Paths3
OpPaths == {<< >>} \cup SubtreePaths

MAX_REFERENCE_HOPS == 10

(***************************************************************************)
(* Elements.  A hash is modelled by the set of (key, element) pairs it     *)
(* commits to, so two Merks have the same hash iff they have the same      *)
(* content; the hash of an empty Merk is the empty set (the zero hash).    *)
(***************************************************************************)
ZeroHash == {}

(* ElementFlag = Option<u8>: None *)
NoFlag == -1

NoElem == [type |-> "None", val |-> 0, hash |-> ZeroHash, ref |-> << >>, flag |-> NoFlag]

Item(v) == [type |-> "Item", val |-> v, hash |-> ZeroHash, ref |-> << >>, flag |-> NoFlag]

Tree(h) == [type |-> "Tree", val |-> 0, hash |-> h, ref |-> << >>, flag |-> NoFlag]

Reference(p) ==
    [type |-> "Reference", val |-> 0, hash |-> ZeroHash, ref |-> p, flag |-> NoFlag]

(* Element::new_tree_with_flag *)
new_tree_with_flag(tree_hash, flag) == [Tree(tree_hash) EXCEPT !.flag = flag]

empty_tree == Tree(ZeroHash)

(* The elements callers pass in. *)
RefTargets == {<<K1, K2>>}
InputElements == {Item(1), empty_tree} \cup {Reference(p) : p \in RefTargets}

(***************************************************************************)
(* A Merk is a map from keys to elements, NoElem for an absent key.        *)
(***************************************************************************)
EmptyMerk == [k \in Keys |-> NoElem]

root_hash(merk) == {<<k, merk[k]>> : k \in {x \in DOMAIN merk : merk[x].type # "None"}}

(* Element::insert / Element::delete: one Put / Delete applied to a Merk.  *)
(* Deleting an absent key leaves the Merk as it is.                        *)
ElementInsert(merk, key, element) == [merk EXCEPT ![key] = element]

ElementDelete(merk, key) == [merk EXCEPT ![key] = NoElem]

(***************************************************************************)
(* compress_path: the concatenation of the path segments and the key.      *)
(***************************************************************************)
RECURSIVE Concat(_)
Concat(path) == IF path = << >> THEN << >> ELSE Head(path) \o Concat(Tail(path))

compress_path(path, key) == Concat(path) \o key

NoKey == << >>

SubtreeKeys == {compress_path(p, NoKey) : p \in SubtreePaths}

(* A view of the store: the open subtrees, the root leaf index map and the *)
(* root tree (the sequence of leaf hashes the Merkle tree is built from).  *)
StorageMerk(subtrees, path) ==
    IF compress_path(path, NoKey) \in DOMAIN subtrees
    THEN subtrees[compress_path(path, NoKey)] ELSE EmptyMerk

build_root_tree(subtrees, root_leaf_keys) ==
    [i \in 1..Cardinality(DOMAIN root_leaf_keys) |->
        LET ks == {k \in DOMAIN root_leaf_keys : root_leaf_keys[k] = i - 1}
        IN IF ks = {} THEN ZeroHash
           ELSE LET k == CHOOSE x \in ks : TRUE
                IN IF k \in DOMAIN subtrees THEN root_hash(subtrees[k]) ELSE ZeroHash]

leaves_len(root_tree) == Len(root_tree)

Put(f, k, v) == [x \in (DOMAIN f) \cup {k} |-> IF x = k THEN v ELSE f[x]]

Front(s) == SubSeq(s, 1, Len(s) - 1)

Last(s) == s[Len(s)]

(***************************************************************************)
(* Reads: get_raw, follow_reference, get.                                  *)
(***************************************************************************)
Ok(e) == [err |-> "", element |-> e]

Err(msg) == [err |-> msg, element |-> NoElem]

(* Element::get on an open Merk *)
ElementGet(merk, key) ==
    IF merk[key].type = "None" THEN Err("PathKeyNotFound") ELSE Ok(merk[key])

get_raw(subtrees, path, key) ==
    IF compress_path(path, NoKey) \notin DOMAIN subtrees
    THEN Err("InvalidPath")
    ELSE ElementGet(subtrees[compress_path(path, NoKey)], key)

(* follow_reference without the set of visited paths *)
RECURSIVE follow_reference_loop_unvisited(_, _, _, _)
follow_reference_loop_unvisited(subtrees, path, hops_left, visited) ==
    IF hops_left = 0 THEN Err("ReferenceLimit")
    ELSE IF path = << >> THEN Err("InvalidPath")
    ELSE LET current == get_raw(subtrees, Front(path), Last(path))
         IN IF current.err # "" THEN current
            ELSE IF current.element.type = "Reference"
                 THEN follow_reference_loop_unvisited(subtrees, current.element.ref,
                                                      hops_left - 1, visited)
                 ELSE current

RECURSIVE follow_reference_loop(_, _, _, _)
follow_reference_loop(subtrees, path, hops_left, visited) ==
    IF hops_left = 0 THEN Err("ReferenceLimit")
    ELSE IF path \in visited THEN Err("CyclicReference")
    ELSE IF path = << >> THEN Err("InvalidPath")
    ELSE LET current == get_raw(subtrees, Front(path), Last(path))
         IN IF current.err # "" THEN current
            ELSE IF current.element.type = "Reference"
                 THEN follow_reference_loop(subtrees, current.element.ref,
                                            hops_left - 1, visited \cup {path})
                 ELSE current

(* follow_reference that counts the first read of get as a hop *)
follow_reference_one_hop_less(subtrees, path) ==
    follow_reference_loop(subtrees, path, MAX_REFERENCE_HOPS - 1, {})

follow_reference(subtrees, path) ==
    follow_reference_loop(subtrees, path, MAX_REFERENCE_HOPS, {})

get(subtrees, path, key) ==
    LET raw == get_raw(subtrees, path, key)
    IN IF raw.err # "" THEN raw
       ELSE IF raw.element.type = "Reference"
            THEN follow_reference(subtrees, raw.element.ref)
            ELSE raw

(***************************************************************************)
(* Writes of single elements: propagate_changes and insert.  A view is the *)
(* triple (subtrees, root_leaf_keys, root_tree) that insert selects with   *)
(* its transaction argument: the committed fields, or the temp_ fields.    *)
(***************************************************************************)
View(st, rlk, rt) == [subtrees |-> st, root_leaf_keys |-> rlk, root_tree |-> rt]

Res(msg, view) == [err |-> msg, view |-> view]

RECURSIVE propagate_changes(_, _)
propagate_changes(view, path) ==
    IF path = << >> THEN Res("", view)
    ELSE IF Len(path) = 1
    THEN Res("", [view EXCEPT !.root_tree =
                     build_root_tree(view.subtrees, view.root_leaf_keys)])
    ELSE LET key == Last(path)
             path_slice == Front(path)
             upper == compress_path(path_slice, NoKey)
             sub == compress_path(path_slice, key)
         IN IF sub \notin DOMAIN view.subtrees \/ upper \notin DOMAIN view.subtrees
            THEN Res("InvalidPath", view)
            ELSE propagate_changes(
                   [view EXCEPT !.subtrees[upper] =
                       ElementInsert(@, key, Tree(root_hash(view.subtrees[sub])))],
                   path_slice)

(* insert that propagates the hashes without storing a non-Tree element *)
insert_without_store(view, storage, path, key, element) ==
    LET cp == compress_path(path, NoKey)
        cps == compress_path(path, key)
        opened == StorageMerk(storage, Append(path, key))
    IN IF element.type = "Tree"
       THEN IF path = << >>
            THEN LET st1 == Put(view.subtrees, cps, opened)
                     rlk1 == IF cps \in DOMAIN view.root_leaf_keys
                             THEN view.root_leaf_keys
                             ELSE Put(view.root_leaf_keys, cps, leaves_len(view.root_tree))
                 IN propagate_changes(View(st1, rlk1, view.root_tree), <<key>>)
            ELSE IF cp \notin DOMAIN view.subtrees
                 THEN Res("InvalidPath", view)
                 ELSE LET st1 == Put(view.subtrees, cps, opened)
                          st2 == [st1 EXCEPT ![cp] =
                                    ElementInsert(@, key, Tree(root_hash(opened)))]
                      IN propagate_changes([view EXCEPT !.subtrees = st2], path)
       ELSE IF path = << >> \/ cp \notin DOMAIN view.subtrees
            THEN Res("InvalidPath", view)
            ELSE propagate_changes(view, path)

(* insert that assigns the next index to a root leaf key already           *)
(* registered                                                              *)
insert_reassigning_index(view, storage, path, key, element) ==
    LET cp == compress_path(path, NoKey)
        cps == compress_path(path, key)
        opened == StorageMerk(storage, Append(path, key))
    IN IF element.type = "Tree"
       THEN IF path = << >>
            THEN LET st1 == Put(view.subtrees, cps, opened)
                     rlk1 == Put(view.root_leaf_keys, cps, leaves_len(view.root_tree))
                 IN propagate_changes(View(st1, rlk1, view.root_tree), <<key>>)
            ELSE IF cp \notin DOMAIN view.subtrees
                 THEN Res("InvalidPath", view)
                 ELSE LET st1 == Put(view.subtrees, cps, opened)
                          st2 == [st1 EXCEPT ![cp] =
                                    ElementInsert(@, key, Tree(root_hash(opened)))]
                      IN propagate_changes([view EXCEPT !.subtrees = st2], path)
       ELSE IF path = << >> \/ cp \notin DOMAIN view.subtrees
            THEN Res("InvalidPath", view)
            ELSE propagate_changes(
                   [view EXCEPT !.subtrees[cp] = ElementInsert(@, key, element)], path)

(* insert; `storage` is the committed content a newly opened Merk reads *)
insert(view, storage, path, key, element) ==
    LET cp == compress_path(path, NoKey)
        cps == compress_path(path, key)
        opened == StorageMerk(storage, Append(path, key))
    IN IF element.type = "Tree"
       THEN IF path = << >>
            THEN LET st1 == Put(view.subtrees, cps, opened)
                     rlk1 == IF cps \in DOMAIN view.root_leaf_keys
                             THEN view.root_leaf_keys
                             ELSE Put(view.root_leaf_keys, cps, leaves_len(view.root_tree))
                 IN propagate_changes(View(st1, rlk1, view.root_tree), <<key>>)
            ELSE IF cp \notin DOMAIN view.subtrees
                 THEN Res("InvalidPath", view)
                 ELSE LET st1 == Put(view.subtrees, cps, opened)
                          st2 == [st1 EXCEPT ![cp] =
                                    ElementInsert(@, key,
                                                  [element EXCEPT !.hash = root_hash(opened)])]
                      IN propagate_changes([view EXCEPT !.subtrees = st2], path)
       ELSE IF path = << >> \/ cp \notin DOMAIN view.subtrees
            THEN Res("InvalidPath", view)
            ELSE propagate_changes(
                   [view EXCEPT !.subtrees[cp] = ElementInsert(@, key, element)], path)

(***************************************************************************)
(* The batch engine: operations and their order.                           *)
(***************************************************************************)
GroveDbOp_insert(path, key, element) ==
    [path |-> path, key |-> key, op |-> "Insert", element |-> element]

GroveDbOp_delete(path, key) ==
    [path |-> path, key |-> key, op |-> "Delete", element |-> NoElem]

(* lexicographic order on byte strings, -1 / 0 / 1 *)
RECURSIVE BytesCmp(_, _)
BytesCmp(a, b) ==
    IF a = << >> /\ b = << >> THEN 0
    ELSE IF a = << >> THEN -1
    ELSE IF b = << >> THEN 1
    ELSE IF Head(a) < Head(b) THEN -1
    ELSE IF Head(a) > Head(b) THEN 1
    ELSE BytesCmp(Tail(a), Tail(b))

(* lexicographic order on sequences of byte strings *)
RECURSIVE SegmentsCmp(_, _)
SegmentsCmp(p, q) ==
    IF p = << >> /\ q = << >> THEN 0
    ELSE IF p = << >> THEN -1
    ELSE IF q = << >> THEN 1
    ELSE IF BytesCmp(Head(p), Head(q)) # 0 THEN BytesCmp(Head(p), Head(q))
    ELSE SegmentsCmp(Tail(p), Tail(q))

(* PathWrapper: shallow paths first, then the order of the paths *)
PathWrapperCmp(p, q) ==
    IF Len(p) < Len(q) THEN -1
    ELSE IF Len(p) > Len(q) THEN 1
    ELSE SegmentsCmp(p, q)

(* Op: a Delete sorts before an Insert, two Inserts compare equal *)
OpCmp(a, b) ==
    IF a = "Delete" /\ b = "Insert" THEN -1
    ELSE IF a = "Insert" /\ b = "Delete" THEN 1
    ELSE 0

(* the key of the operations tree: (PathWrapper, key, op) *)
OpKeyCmp(a, b) ==
    IF PathWrapperCmp(a.path, b.path) # 0 THEN PathWrapperCmp(a.path, b.path)
    ELSE IF BytesCmp(a.key, b.key) # 0 THEN BytesCmp(a.key, b.key)
    ELSE OpCmp(a.op, b.op)

InsertAt(seq, i, x) == SubSeq(seq, 1, i - 1) \o <<x>> \o SubSeq(seq, i, Len(seq))

(* RBTree::lower_bound(Included(key)): the first element not below key,    *)
(* Len + 1 when there is none                                              *)
lower_bound(ops, op) ==
    LET hits == {i \in 1..Len(ops) : OpKeyCmp(ops[i], op) >= 0}
    IN IF hits = {} THEN Len(ops) + 1
       ELSE CHOOSE i \in hits : \A j \in hits : i <= j

(* RBTree insert by key: after the elements whose key is not above it *)
rbtree_insert(ops, op) ==
    LET above == {i \in 1..Len(ops) : OpKeyCmp(ops[i], op) > 0}
    IN IF above = {} THEN Append(ops, op)
       ELSE InsertAt(ops, CHOOSE i \in above : \A j \in above : i <= j, op)

insert_unique_op(ops, op) ==
    LET i == lower_bound(ops, op)
    IN IF i <= Len(ops) /\ ops[i] = op THEN ops
       ELSE IF i <= Len(ops) /\ ops[i].op = "Insert"
               /\ ops[i].path = op.path /\ ops[i].key = op.key THEN ops
       ELSE InsertAt(ops, i, op)

RECURSIVE insert_unique_ops(_, _)
insert_unique_ops(ops, new) ==
    IF new = << >> THEN ops
    ELSE insert_unique_ops(insert_unique_op(ops, Head(new)), Tail(new))

(***************************************************************************)
(* validate_batch.                                                         *)
(***************************************************************************)
RECURSIVE SetToSeq(_)
SetToSeq(S) ==
    IF S = {} THEN << >>
    ELSE LET x == CHOOSE y \in S : TRUE IN <<x>> \o SetToSeq(S \ {x})

(* find_subtrees: the path itself and every subtree found below it by      *)
(* scanning the stored elements for Tree elements                          *)
RECURSIVE find_subtrees(_, _)
find_subtrees(subtrees, path) ==
    {path} \cup UNION {find_subtrees(subtrees, Append(path, k)) :
                         k \in {x \in Keys : StorageMerk(subtrees, path)[x].type = "Tree"}}

(* the read validate_batch makes of the entry naming a subtree: a root     *)
(* leaf reads as a Tree, any other entry is read with get                  *)
get_parent(view, path, key) ==
    IF path = << >>
    THEN IF key \in DOMAIN view.root_leaf_keys
         THEN Ok(Tree(root_hash(StorageMerk(view.subtrees, <<key>>))))
         ELSE Err("PathNotFound")
    ELSE get(view.subtrees, path, key)

(* first pass: the deletions of every subtree found under an operation *)
ExpandedDeletes(view, ops) ==
    UNION {find_subtrees(view.subtrees, Append(ops[i].path, ops[i].key)) :
             i \in 1..Len(ops)}

DeleteOpsOf(paths) ==
    SetToSeq({GroveDbOp_delete(Front(p), Last(p)) : p \in paths})

(* second pass, one operation: vs is (valid_subtrees, removed_subtrees, err) *)
validate_op(view, vs, op) ==
    LET path == op.path
        new_path == Append(op.path, op.key)
        after == IF op.op = "Insert" /\ op.element.type = "Tree"
                 THEN [vs EXCEPT !.removed = @ \ {new_path},
                                 !.valid = @ \cup {new_path}]
                 ELSE IF op.op = "Delete"
                 THEN [vs EXCEPT !.valid = @ \ {new_path},
                                 !.removed = @ \cup {new_path}]
                 ELSE vs
    IN IF op.op = "Insert" /\ path \in vs.removed
       THEN [vs EXCEPT !.err = "InvalidPath"]
       ELSE IF path \notin vs.valid
       THEN IF Len(path) = 0
            THEN IF op.key \notin DOMAIN view.root_leaf_keys
                 THEN [vs EXCEPT !.err = "PathNotFound"]
                 ELSE IF op.op = "Delete"
                 THEN [vs EXCEPT !.err = "InvalidPath"]
                 ELSE after
            ELSE LET subtree == get_parent(view, Front(path), Last(path))
                 IN IF subtree.err # "" THEN [vs EXCEPT !.err = subtree.err]
                    ELSE IF subtree.element.type # "Tree"
                    THEN [vs EXCEPT !.err = "InvalidPath"]
                    ELSE after
       ELSE after

RECURSIVE validate_loop(_, _, _, _)
validate_loop(view, vs, ops, i) ==
    IF i > Len(ops) \/ vs.err # "" THEN vs
    ELSE validate_loop(view, validate_op(view, vs, ops[i]), ops, i + 1)

validate_batch(view, ops) ==
    LET delete_paths == ExpandedDeletes(view, ops)
        expanded == insert_unique_ops(ops, DeleteOpsOf(delete_paths))
        vs == validate_loop(view,
                  [valid |-> {<< >>}, removed |-> delete_paths, err |-> ""],
                  expanded, 1)
    IN [err |-> vs.err, ops |-> expanded]

(***************************************************************************)
(* delete of a single entry: the entry is read raw, the subtrees found     *)
(* under a Tree entry are closed and emptied, the entry is removed and     *)
(* the hashes are propagated.                                              *)
(***************************************************************************)
RemoveAll(f, ks) == [x \in (DOMAIN f) \ ks |-> f[x]]

delete(view, path, key) ==
    IF path = << >> THEN Res("InvalidPath", view)
    ELSE LET element == get_raw(view.subtrees, path, key)
             cp == compress_path(path, NoKey)
             below == IF element.err = "" /\ element.element.type = "Tree"
                      THEN {compress_path(p, NoKey) :
                              p \in find_subtrees(view.subtrees, Append(path, key))}
                      ELSE {}
         IN IF element.err # "" THEN Res(element.err, view)
            ELSE propagate_changes(
                   [view EXCEPT !.subtrees =
                       [RemoveAll(@, below) EXCEPT ![cp] = ElementDelete(@, key)]],
                   path)

(***************************************************************************)
(* apply_body.  A Merk opened through a batch storage context reads the    *)
(* store as it was before the batch; its puts and deletes are collected    *)
(* in the storage batch (`writes`) and reach the store at the commit.      *)
(***************************************************************************)
Write(path, key, element) == [path |-> path, key |-> key, element |-> element]

Remove(f, k) == [x \in (DOMAIN f) \ {k} |-> f[x]]

(* Merk::clear: a delete for every key the storage iterator yields *)
ClearWrites(base, path) ==
    SetToSeq({Write(path, k, NoElem) :
                k \in {x \in Keys : StorageMerk(base, path)[x].type # "None"}})

(* what the loop did, in order: a Merk opened, an operation executed, a   *)
(* subtree finalized (its propagation Insert emitted)                      *)
Event(kind, path) == [kind |-> kind, path |-> path]

(* a propagation that schedules its Insert in the finalized subtree itself *)
apply_body_propagate_in_place(b) ==
    IF b.first \/ b.prev_path = << >> THEN b
    ELSE IF b.prev_path \notin DOMAIN b.temp_subtrees
    THEN [b EXCEPT !.err = "Panic"]
    ELSE [b EXCEPT
            !.temp_subtrees = Remove(@, b.prev_path),
            !.log = Append(@, Event("propagate", b.prev_path)),
            !.ops = rbtree_insert(@,
                      GroveDbOp_insert(b.prev_path, Last(b.prev_path),
                                       Tree(root_hash(b.temp_subtrees[b.prev_path]))))]

(* the propagation step at the top of the loop; `first` tells whether the  *)
(* cursor still points at an operation (only before the first removal)     *)
apply_body_propagate(b) ==
    IF b.first \/ b.prev_path = << >> THEN b
    ELSE IF b.prev_path \notin DOMAIN b.temp_subtrees
    THEN [b EXCEPT !.err = "Panic"]
    ELSE [b EXCEPT
            !.temp_subtrees = Remove(@, b.prev_path),
            !.log = Append(@, Event("propagate", b.prev_path)),
            !.ops = rbtree_insert(@,
                      GroveDbOp_insert(Front(b.prev_path), Last(b.prev_path),
                                       Tree(root_hash(b.temp_subtrees[b.prev_path]))))]

(* apply_body that returns the error of reading a key scheduled for       *)
(* deletion                                                                *)
apply_body_execute_missing_key_fails(base, fault, b) ==
    LET op == Last(b.ops)
        rest == Front(b.ops)
    IN IF op.path = << >>
       THEN [b EXCEPT
               !.ops = rest, !.first = FALSE, !.prev_path = op.path,
               !.temp_root_leaves =
                   IF op.key \in DOMAIN @ THEN @
                   ELSE Put(@, op.key, Cardinality(DOMAIN @))]
       ELSE LET merk == IF op.path \in DOMAIN b.temp_subtrees
                        THEN b.temp_subtrees[op.path]
                        ELSE StorageMerk(base, op.path)
                sub_path == Append(op.path, op.key)
                is_tree == ElementGet(merk, op.key).err = ""
                           /\ ElementGet(merk, op.key).element.type = "Tree"
                cleared == IF is_tree THEN ClearWrites(base, sub_path) ELSE << >>
                opened == IF is_tree THEN Remove(b.temp_subtrees, sub_path)
                          ELSE b.temp_subtrees
                merk2 == IF op.op = "Insert"
                         THEN ElementInsert(merk, op.key, op.element)
                         ELSE ElementDelete(merk, op.key)
            IN IF fault = "open" /\ op.path \notin DOMAIN b.temp_subtrees
               THEN [b EXCEPT !.err = "CorruptedData"]
               ELSE IF op.op = "Delete" /\ ElementGet(merk, op.key).err # ""
               THEN [b EXCEPT !.err = ElementGet(merk, op.key).err]
               ELSE IF fault = "open" /\ is_tree /\ sub_path \notin DOMAIN b.temp_subtrees
               THEN [b EXCEPT !.err = "CorruptedData"]
               ELSE IF fault = "merk" /\ is_tree
               THEN [b EXCEPT !.err = "InternalError"]
               ELSE IF fault = "merk"
               THEN [b EXCEPT !.err = "CorruptedData"]
               ELSE
               [b EXCEPT
                  !.ops = rest, !.first = FALSE, !.prev_path = op.path,
                  !.temp_subtrees = Put(opened, op.path, merk2),
                  !.writes = @ \o cleared
                               \o <<Write(op.path, op.key,
                                          IF op.op = "Insert" THEN op.element ELSE NoElem)>>]

(* apply_body without the cleanup of an overwritten or deleted subtree *)
apply_body_execute_no_cleanup(base, fault, b) ==
    LET op == Last(b.ops)
        rest == Front(b.ops)
    IN IF op.path = << >>
       THEN [b EXCEPT
               !.ops = rest, !.first = FALSE, !.prev_path = op.path,
               !.temp_root_leaves =
                   IF op.key \in DOMAIN @ THEN @
                   ELSE Put(@, op.key, Cardinality(DOMAIN @))]
       ELSE LET merk == IF op.path \in DOMAIN b.temp_subtrees
                        THEN b.temp_subtrees[op.path]
                        ELSE StorageMerk(base, op.path)
                sub_path == Append(op.path, op.key)
                is_tree == ElementGet(merk, op.key).err = ""
                           /\ ElementGet(merk, op.key).element.type = "Tree"
                cleared == << >>
                opened == IF is_tree THEN Remove(b.temp_subtrees, sub_path)
                          ELSE b.temp_subtrees
                merk2 == IF op.op = "Insert"
                         THEN ElementInsert(merk, op.key, op.element)
                         ELSE ElementDelete(merk, op.key)
            IN IF fault = "open" /\ op.path \notin DOMAIN b.temp_subtrees
               THEN [b EXCEPT !.err = "CorruptedData"]
               ELSE IF fault = "open" /\ is_tree /\ sub_path \notin DOMAIN b.temp_subtrees
               THEN [b EXCEPT !.err = "CorruptedData"]
               ELSE IF fault = "merk" /\ is_tree
               THEN [b EXCEPT !.err = "InternalError"]
               ELSE IF fault = "merk"
               THEN [b EXCEPT !.err = "CorruptedData"]
               ELSE
               [b EXCEPT
                  !.ops = rest, !.first = FALSE, !.prev_path = op.path,
                  !.temp_subtrees = Put(opened, op.path, merk2),
                  !.writes = @ \o cleared
                               \o <<Write(op.path, op.key,
                                          IF op.op = "Insert" THEN op.element ELSE NoElem)>>]

(* the execution of the operation at the back of the tree *)
apply_body_execute(base, fault, b) ==
    LET op == Last(b.ops)
        rest == Front(b.ops)
    IN IF op.path = << >>
       THEN [b EXCEPT
               !.ops = rest, !.first = FALSE, !.prev_path = op.path,
               !.log = Append(@, Event("execute", op.path)),
               !.temp_root_leaves =
                   IF op.key \in DOMAIN @ THEN @
                   ELSE Put(@, op.key, Cardinality(DOMAIN @))]
       ELSE LET merk == IF op.path \in DOMAIN b.temp_subtrees
                        THEN b.temp_subtrees[op.path]
                        ELSE StorageMerk(base, op.path)
                sub_path == Append(op.path, op.key)
                is_tree == ElementGet(merk, op.key).err = ""
                           /\ ElementGet(merk, op.key).element.type = "Tree"
                cleared == IF is_tree THEN ClearWrites(base, sub_path) ELSE << >>
                opened == IF is_tree THEN Remove(b.temp_subtrees, sub_path)
                          ELSE b.temp_subtrees
                merk2 == IF op.op = "Insert"
                         THEN ElementInsert(merk, op.key, op.element)
                         ELSE ElementDelete(merk, op.key)
            IN IF fault = "open" /\ op.path \notin DOMAIN b.temp_subtrees
               THEN [b EXCEPT !.err = "CorruptedData"]
               ELSE IF fault = "open" /\ is_tree /\ sub_path \notin DOMAIN b.temp_subtrees
               THEN [b EXCEPT !.err = "CorruptedData"]
               ELSE IF fault = "merk" /\ is_tree
               THEN [b EXCEPT !.err = "InternalError"]
               ELSE IF fault = "merk"
               THEN [b EXCEPT !.err = "CorruptedData"]
               ELSE
               [b EXCEPT
                  !.ops = rest, !.first = FALSE, !.prev_path = op.path,
                  !.log = (IF op.path \in DOMAIN b.temp_subtrees THEN @
                           ELSE Append(@, Event("open", op.path)))
                          \o <<Event("execute", op.path)>>,
                  !.temp_subtrees = Put(opened, op.path, merk2),
                  !.writes = @ \o cleared
                               \o <<Write(op.path, op.key,
                                          IF op.op = "Insert" THEN op.element ELSE NoElem)>>]

RECURSIVE apply_body_loop(_, _, _)
apply_body_loop(base, fault, b) ==
    IF b.err # "" THEN b
    ELSE LET p == apply_body_propagate(b)
         IN IF p.err # "" THEN p
            ELSE IF p.ops = << >> THEN p
            ELSE apply_body_loop(base, fault, apply_body_execute(base, fault, p))

apply_body(base, fault, sorted_operations, temp_root_leaves) ==
    apply_body_loop(base, fault,
        [ops |-> sorted_operations, temp_root_leaves |-> temp_root_leaves,
         temp_subtrees |-> << >>, prev_path |-> Last(sorted_operations).path,
         writes |-> << >>, err |-> "", first |-> TRUE, log |-> << >>])

(* commit_multi_context_batch: the collected writes, in order *)
RECURSIVE commit_writes(_, _)
commit_writes(subtrees, writes) ==
    IF writes = << >> THEN subtrees
    ELSE LET w == Head(writes)
             cp == compress_path(w.path, NoKey)
         IN commit_writes(
              Put(subtrees, cp, [StorageMerk(subtrees, w.path) EXCEPT ![w.key] = w.element]),
              Tail(writes))

(* every registered root leaf has an open subtree *)
OpenRootLeaves(subtrees, root_leaf_keys) ==
    [cp \in (DOMAIN subtrees) \cup (DOMAIN root_leaf_keys) |->
        IF cp \in DOMAIN subtrees THEN subtrees[cp] ELSE EmptyMerk]

(* the store after the storage batch of a finished apply_body is committed *)
commit_batch(view, body) ==
    LET st == OpenRootLeaves(commit_writes(view.subtrees, body.writes),
                             body.temp_root_leaves)
    IN View(st, body.temp_root_leaves, build_root_tree(st, body.temp_root_leaves))

(* the result of apply_batch; `fault` is the storage fault that made it fail *)
BatchRes(msg, fault, view) == [err |-> msg, fault |-> fault, view |-> view]

(* apply_executed with the storage batch committed before the root leaves *)
(* are saved                                                               *)
apply_executed_commit_first(view, fault, body) ==
    IF body.err # "" THEN BatchRes(body.err, fault, view)
    ELSE IF fault = "save" THEN BatchRes("StorageError", fault, commit_batch(view, body))
    ELSE BatchRes("", "none", commit_batch(view, body))

apply_executed(view, fault, body) ==
    IF body.err # "" THEN BatchRes(body.err, fault, view)
    ELSE IF fault = "save" THEN BatchRes("StorageError", fault, view)
    ELSE BatchRes("", "none", commit_batch(view, body))

apply_validated(view, fault, validated) ==
    IF validated.err # "" THEN BatchRes(validated.err, "none", view)
    ELSE apply_executed(view, fault,
           apply_body(view.subtrees, fault, validated.ops, view.root_leaf_keys))

(* apply_batch; `fault` names the kind of storage call that fails first,   *)
(* if one does: opening a Merk, a Merk insert, delete or clear, or the     *)
(* save of the root leaves                                                 *)
apply_batch(view, fault, ops) ==
    IF ops = << >> THEN BatchRes("", "none", view)
    ELSE apply_validated(view, fault,
                         validate_batch(view, insert_unique_ops(<< >>, ops)))

Faults == {"none", "open", "merk", "save"}

(***************************************************************************)
(* The state machine.                                                      *)
(***************************************************************************)
VARIABLES subtrees, root_leaf_keys, root_tree,
          temp_subtrees, temp_root_leaf_keys, temp_root_tree,
          is_readonly, meta, tx_meta, snapshot, last, steps

vars == <<subtrees, root_leaf_keys, root_tree,
          temp_subtrees, temp_root_leaf_keys, temp_root_tree,
          is_readonly, meta, tx_meta, snapshot, last, steps>>

Committed == View(subtrees, root_leaf_keys, root_tree)

Temp == View(temp_subtrees, temp_root_leaf_keys, temp_root_tree)

EmptyView == View(<< >>, << >>, << >>)

NoMeta == [prefixes |-> {}, root_leafs |-> << >>]

Called(op, tx, path, key, element, ops, fault, err) ==
    [op |-> op, tx |-> tx, path |-> path, key |-> key, element |-> element,
     ops |-> ops, fault |-> fault, err |-> err, ro |-> is_readonly]

(* the inputs of the model *)
InsertPaths(element) ==
    IF element.type = "Tree" THEN {<< >>, <<K1>>}
    ELSE {<< >>, <<K1>>, <<K2>>, <<K1, K1>>}

BatchPaths == {<< >>, <<K1>>, <<K1, K1>>}

DeletePaths == {<<K1>>, <<K1, K2>>}

BatchElements(path) == IF Len(path) < 2 THEN {Item(1), empty_tree} ELSE {Item(1)}

BatchOps ==
    {GroveDbOp_delete(p, k) : p \in BatchPaths, k \in Keys}
    \cup UNION {{GroveDbOp_insert(p, k, e) : e \in BatchElements(p)} :
                  p \in BatchPaths, k \in Keys}

BatchesOf(n) == IF n <= MaxBatch THEN [1..n -> BatchOps] ELSE {}

(* The stores a run starts from: a freshly opened store, the stores of the *)
(* test fixture after its first and second root leaf insertions, after a   *)
(* first nested subtree is inserted, after a Reference to that subtree is  *)
(* inserted next to it, and (as in test_subtree_deletion) after a subtree  *)
(* with an item is inserted into the nested subtree.                       *)
Fixture(n) ==
    IF n = 0 THEN EmptyView
    ELSE IF n = 1 THEN insert(EmptyView, << >>, << >>, K1, empty_tree).view
    ELSE LET one == insert(EmptyView, << >>, << >>, K1, empty_tree).view
             two == insert(one, one.subtrees, << >>, K2, empty_tree).view
             three == insert(two, two.subtrees, <<K1>>, K2, empty_tree).view
             deep == insert(three, three.subtrees, <<K1, K2>>, K1, empty_tree).view
         IN IF n = 2 THEN two
            ELSE IF n = 3 THEN three
            ELSE IF n = 4
            THEN insert(three, three.subtrees, <<K1>>, K1, Reference(<<K1, K2>>)).view
            ELSE insert(deep, deep.subtrees, <<K1, K2, K1>>, K1, Item(1)).view

Fixtures == {Fixture(n) : n \in 0..5}

(* A run starts on a fixture, before or right after start_transaction. *)
Init ==
    /\ \E view \in Fixtures : \E started \in BOOLEAN :
         /\ subtrees = view.subtrees
         /\ root_leaf_keys = view.root_leaf_keys
         /\ root_tree = view.root_tree
         /\ meta = [prefixes |-> DOMAIN view.subtrees, root_leafs |-> << >>]
         /\ is_readonly = started
         /\ temp_subtrees = IF started THEN view.subtrees ELSE << >>
         /\ temp_root_leaf_keys = IF started THEN view.root_leaf_keys ELSE << >>
         /\ temp_root_tree = IF started THEN view.root_tree ELSE << >>
         /\ tx_meta = IF started THEN meta ELSE NoMeta
         /\ snapshot = IF started THEN view ELSE EmptyView
         /\ last = [op |-> IF started THEN "start_transaction" ELSE "open",
                    tx |-> FALSE, path |-> << >>, key |-> NoKey,
                    element |-> NoElem, ops |-> << >>, fault |-> "none", err |-> "",
                    ro |-> FALSE]
    /\ steps = 0

(* store_subtrees_keys_data *)
store_subtrees_keys_data(tx, m) ==
    IF tx
    THEN [m EXCEPT !.prefixes = DOMAIN temp_subtrees', !.root_leafs = root_leaf_keys']
    ELSE [m EXCEPT !.prefixes = DOMAIN subtrees', !.root_leafs = temp_root_leaf_keys']

SetCommitted(view) ==
    /\ subtrees' = view.subtrees
    /\ root_leaf_keys' = view.root_leaf_keys
    /\ root_tree' = view.root_tree

SetTemp(view) ==
    /\ temp_subtrees' = view.subtrees
    /\ temp_root_leaf_keys' = view.root_leaf_keys
    /\ temp_root_tree' = view.root_tree

(* A call that fails and leaves its view as it was ends the run: the runs   *)
(* that go on from there are the runs without the call.                    *)
StepsAfter(r, view, n) ==
    IF r.err # "" /\ r.view = view THEN MaxSteps ELSE steps + n

(* insert that writes to the committed fields whatever its transaction     *)
(* argument is                                                             *)
Insert_ignoring_transaction(path, key, element, tx) ==
    /\ steps < MaxSteps
    /\ tx => is_readonly
    /\ \E r \in {insert(Committed, subtrees, path, key, element)} :
          /\ SetCommitted(r.view)
          /\ UNCHANGED <<temp_subtrees, temp_root_leaf_keys, temp_root_tree>>
          /\ UNCHANGED <<meta, tx_meta>>
          /\ last' = Called("insert", tx, path, key, element, << >>, "none", r.err)
          /\ steps' = StepsAfter(r, Committed, 1)
    /\ UNCHANGED <<is_readonly, snapshot>>

(* GroveDb::insert *)
Insert(path, key, element, tx) ==
    /\ steps < MaxSteps
    /\ tx => is_readonly
    /\ \E r \in {insert(IF tx THEN Temp ELSE Committed, subtrees, path, key, element)} :
       \E stored \in {r.err = "" /\ element.type = "Tree"} :
          /\ IF tx
             THEN SetTemp(r.view) /\ UNCHANGED <<subtrees, root_leaf_keys, root_tree>>
             ELSE SetCommitted(r.view)
                  /\ UNCHANGED <<temp_subtrees, temp_root_leaf_keys, temp_root_tree>>
          /\ meta' = IF stored /\ ~tx THEN store_subtrees_keys_data(FALSE, meta) ELSE meta
          /\ tx_meta' = IF stored /\ tx THEN store_subtrees_keys_data(TRUE, tx_meta)
                        ELSE tx_meta
          /\ last' = Called("insert", tx, path, key, element, << >>, "none", r.err)
          /\ steps' = StepsAfter(r, IF tx THEN Temp ELSE Committed, 1)
    /\ UNCHANGED <<is_readonly, snapshot>>

(* insert_if_not_exists: `inserted` is the bool it returns *)
insert_if_not_exists(view, storage, path, key, element) ==
    IF get(view.subtrees, path, key).err = ""
    THEN [err |-> "", inserted |-> FALSE, view |-> view]
    ELSE LET r == insert(view, storage, path, key, element)
         IN [err |-> r.err, inserted |-> r.err = "", view |-> r.view]

IfNotExistsPaths == {<<K1>>, <<K1, K1>>}

(* GroveDb::insert_if_not_exists *)
InsertIfNotExists(path, key, element, tx) ==
    /\ steps < MaxSteps
    /\ tx => is_readonly
    /\ \E r \in {insert_if_not_exists(IF tx THEN Temp ELSE Committed, subtrees,
                                      path, key, element)} :
       \E stored \in {r.inserted /\ element.type = "Tree"} :
          /\ IF tx
             THEN SetTemp(r.view) /\ UNCHANGED <<subtrees, root_leaf_keys, root_tree>>
             ELSE SetCommitted(r.view)
                  /\ UNCHANGED <<temp_subtrees, temp_root_leaf_keys, temp_root_tree>>
          /\ meta' = IF stored /\ ~tx THEN store_subtrees_keys_data(FALSE, meta) ELSE meta
          /\ tx_meta' = IF stored /\ tx THEN store_subtrees_keys_data(TRUE, tx_meta)
                        ELSE tx_meta
          /\ last' = [op |-> "insert_if_not_exists", tx |-> tx, path |-> path,
                      key |-> key, element |-> element, ops |-> << >>,
                      fault |-> "none", err |-> r.err, ro |-> is_readonly,
                      inserted |-> r.inserted]
          /\ steps' = StepsAfter(r, IF tx THEN Temp ELSE Committed, 1)
    /\ UNCHANGED <<is_readonly, snapshot>>

(* GroveDb::apply_batch, of a batch that is not empty.  A storage fault can *)
(* only meet a batch that passed validate_batch.                           *)
apply_batch_call(ops, tx) ==
    /\ tx => is_readonly
    /\ ops # << >>
    /\ \E v \in {validate_batch(IF tx THEN Temp ELSE Committed,
                                insert_unique_ops(<< >>, ops))} :
       \E fault \in (IF v.err = "" THEN Faults ELSE {"none"}) :
       \E r \in {apply_validated(IF tx THEN Temp ELSE Committed, fault, v)} :
          /\ r.fault = fault
          /\ IF tx
             THEN SetTemp(r.view) /\ UNCHANGED <<subtrees, root_leaf_keys, root_tree>>
             ELSE SetCommitted(r.view)
                  /\ UNCHANGED <<temp_subtrees, temp_root_leaf_keys, temp_root_tree>>
          /\ meta' = IF r.err = "" /\ ~tx
                     THEN [meta EXCEPT !.root_leafs = r.view.root_leaf_keys] ELSE meta
          /\ tx_meta' = IF r.err = "" /\ tx
                        THEN [tx_meta EXCEPT !.root_leafs = r.view.root_leaf_keys]
                        ELSE tx_meta
          /\ last' = Called("apply_batch", tx, << >>, NoKey, NoElem, ops, fault, r.err)
          /\ steps' = StepsAfter(r, IF tx THEN Temp ELSE Committed, Len(ops))
    /\ UNCHANGED <<is_readonly, snapshot>>

ApplyBatch(ops, tx) ==
    /\ steps + Len(ops) <= MaxSteps
    /\ apply_batch_call(ops, tx)

(* The batch of the scenario "insert a subtree, insert an item into it,    *)
(* delete the subtree", in that order.                                     *)
InsertInsertDelete(leaf, a, b) ==
    <<GroveDbOp_insert(<<leaf>>, a, empty_tree),
      GroveDbOp_insert(<<leaf, a>>, b, Item(1)),
      GroveDbOp_delete(<<leaf>>, a)>>

(* a run may start with the batch of the scenario *)
ApplyScenario(ops, tx) ==
    /\ steps = 0
    /\ apply_batch_call(ops, tx)

(* GroveDb::delete *)
Delete(path, key, tx) ==
    /\ steps < MaxSteps
    /\ tx => is_readonly
    /\ \E r \in {delete(IF tx THEN Temp ELSE Committed, path, key)} :
          /\ IF tx
             THEN SetTemp(r.view) /\ UNCHANGED <<subtrees, root_leaf_keys, root_tree>>
             ELSE SetCommitted(r.view)
                  /\ UNCHANGED <<temp_subtrees, temp_root_leaf_keys, temp_root_tree>>
          /\ meta' = IF r.err = "" /\ ~tx
                     THEN [meta EXCEPT !.prefixes = DOMAIN r.view.subtrees] ELSE meta
          /\ tx_meta' = IF r.err = "" /\ tx
                        THEN [tx_meta EXCEPT !.prefixes = DOMAIN r.view.subtrees]
                        ELSE tx_meta
          /\ last' = Called("delete", tx, path, key, NoElem, << >>, "none", r.err)
          /\ steps' = StepsAfter(r, IF tx THEN Temp ELSE Committed, 1)
    /\ UNCHANGED <<is_readonly, snapshot>>

(* GroveDb::start_transaction *)
StartTransaction ==
    /\ steps < MaxSteps
    /\ ~is_readonly
    /\ is_readonly' = TRUE
    /\ SetTemp(Committed)
    /\ tx_meta' = meta
    /\ snapshot' = Committed
    /\ last' = Called("start_transaction", FALSE, << >>, NoKey, NoElem, << >>, "none", "")
    /\ steps' = steps + 1
    /\ UNCHANGED <<subtrees, root_leaf_keys, root_tree, meta>>

(* GroveDb::commit_transaction *)
CommitTransaction ==
    /\ steps < MaxSteps
    /\ is_readonly
    /\ is_readonly' = FALSE
    /\ SetCommitted(Temp)
    /\ temp_subtrees' = << >>
    /\ temp_root_leaf_keys' = << >>
    /\ temp_root_tree' = << >>
    /\ meta' = tx_meta
    /\ last' = Called("commit_transaction", TRUE, << >>, NoKey, NoElem, << >>, "none", "")
    /\ steps' = steps + 1
    /\ UNCHANGED <<tx_meta, snapshot>>

(* GroveDb::rollback_transaction *)
RollbackTransaction ==
    /\ steps < MaxSteps
    /\ is_readonly
    /\ is_readonly' = FALSE
    /\ SetTemp(Committed)
    /\ tx_meta' = meta
    /\ last' = Called("rollback_transaction", TRUE, << >>, NoKey, NoElem, << >>, "none", "")
    /\ steps' = steps + 1
    /\ UNCHANGED <<subtrees, root_leaf_keys, root_tree, meta, snapshot>>

(* GroveDb::open of a store that was closed: the subtrees are opened from   *)
(* the stored prefixes, the root leaves are read from the meta column, the *)
(* root tree is built from both (build_root_tree panics on a root leaf     *)
(* without an open subtree), and GroveDb::new empties the temp_ fields.    *)
(* The content of storage is kept in the open subtrees, so the run ends    *)
(* with the reopened store.                                                *)
open(m, storage) ==
    LET st == [cp \in m.prefixes |->
                 IF cp \in DOMAIN storage THEN storage[cp] ELSE EmptyMerk]
    IN IF \E k \in DOMAIN m.root_leafs : k \notin m.prefixes
       THEN Res("panic", EmptyView)
       ELSE Res("", View(st, m.root_leafs, build_root_tree(st, m.root_leafs)))

(* the store is dropped and opened again *)
Reopen ==
    /\ steps < MaxSteps
    /\ ~is_readonly
    /\ \E r \in {open(meta, subtrees)} :
          /\ IF r.err = "" THEN SetCommitted(r.view)
             ELSE UNCHANGED <<subtrees, root_leaf_keys, root_tree>>
          /\ last' = Called("reopen", FALSE, << >>, NoKey, NoElem, << >>, "none", r.err)
    /\ SetTemp(EmptyView)
    /\ steps' = MaxSteps
    /\ UNCHANGED <<is_readonly, meta, tx_meta, snapshot>>

Next ==
    \/ \E tx \in {FALSE, is_readonly} : \E element \in InputElements :
         \E path \in InsertPaths(element) : \E key \in Keys :
           Insert(path, key, element, tx)
    \/ \E tx \in {FALSE, is_readonly} : \E n \in 1..(MaxSteps - steps) :
         \E ops \in BatchesOf(n) : ApplyBatch(ops, tx)
    \/ \E tx \in {FALSE, is_readonly} : \E leaf \in Keys : \E a \in Keys : \E b \in Keys :
         ApplyScenario(InsertInsertDelete(leaf, a, b), tx)
    \/ \E tx \in {FALSE, is_readonly} : \E path \in DeletePaths : \E key \in Keys :
         Delete(path, key, tx)
    \/ StartTransaction
    \/ CommitTransaction
    \/ RollbackTransaction
    \/ Reopen
    \/ \E tx \in {FALSE, is_readonly} : \E element \in {Item(1)} :
         \E path \in IfNotExistsPaths : \E key \in Keys :
           InsertIfNotExists(path, key, element, tx)

Spec == Init /\ [][Next]_vars

(***************************************************************************)
(* Properties.                                                             *)
(***************************************************************************)
IsBatch(l) == l.op = "apply_batch"

ViewOf(tx) == IF tx THEN Temp ELSE Committed

(* the Tree elements of a view hold the root hashes of their subtrees and  *)
(* the leaves of the root tree are the root hashes of the top subtrees     *)
HashesInSync(view) ==
    /\ \A p \in Paths1 \cup Paths2 : \A k \in Keys :
         (/\ compress_path(p, NoKey) \in DOMAIN view.subtrees
          /\ view.subtrees[compress_path(p, NoKey)][k].type = "Tree")
         => view.subtrees[compress_path(p, NoKey)][k].hash
              = root_hash(StorageMerk(view.subtrees, Append(p, k)))
    /\ \A k \in DOMAIN view.root_leaf_keys :
         /\ view.root_leaf_keys[k] < Len(view.root_tree)
         /\ view.root_tree[view.root_leaf_keys[k] + 1]
              = root_hash(StorageMerk(view.subtrees, <<k>>))

(* C1: after successful inserts and apply_batch calls every Tree element   *)
(* holds the current root hash of its subtree and every root tree leaf is  *)
(* the current root hash of its top-level subtree, in the committed store  *)
(* and in the view of an open transaction.                                 *)
C1_HashesInSync ==
    (last.err = "") => (HashesInSync(Committed) /\ (is_readonly => HashesInSync(Temp)))

(* C2: an apply_batch that returns an error changes nothing: the subtrees, *)
(* the root leaves, the root tree and the persisted meta data of both      *)
(* views are as before the call.                                           *)
C2_FailedBatchChangesNothing ==
    [][(IsBatch(last') /\ last'.err # "")
        => UNCHANGED <<subtrees, root_leaf_keys, root_tree, temp_subtrees,
                       temp_root_leaf_keys, temp_root_tree, meta, tx_meta>>]_vars

C2_Witness ==
    /\ IsBatch(last) /\ last.fault = "save" /\ last.err = "StorageError"
    /\ Len(last.ops) = 2 /\ subtrees # << >>

(* same element up to the hash a Tree element is given when it is stored *)
SameElement(stored, element) ==
    IF element.type = "Tree" THEN stored.type = "Tree" ELSE stored = element

(* C3: an insert made with the transaction argument leaves every read      *)
(* without the transaction as it was (a key absent from the committed      *)
(* store stays absent), and the read with the transaction finds the        *)
(* element at its path and key (a root leaf, inserted at the empty path,   *)
(* is a subtree and no entry of one; a Reference is read unresolved).      *)
C3_TransactionIsolation ==
    [][(last'.op = "insert" /\ last'.tx /\ last'.err = "")
        => /\ \/ subtrees' = subtrees
              \/ \A p \in SubtreePaths : \A k \in Keys :
                   get(subtrees', p, k) = get(subtrees, p, k)
           /\ root_leaf_keys' = root_leaf_keys /\ root_tree' = root_tree
           /\ (last'.path # << >>)
                => /\ get_raw(temp_subtrees', last'.path, last'.key).err = ""
                   /\ SameElement(get_raw(temp_subtrees', last'.path, last'.key).element,
                                  last'.element)
                   /\ (last'.element.type # "Reference")
                        => get(temp_subtrees', last'.path, last'.key)
                             = get_raw(temp_subtrees', last'.path, last'.key)]_vars

C3_Witness ==
    /\ last.op = "insert" /\ last.tx /\ last.err = "" /\ is_readonly
    /\ last.element = Item(1)
    /\ get(subtrees, last.path, last.key).err # ""
    /\ get(temp_subtrees, last.path, last.key) = Ok(Item(1))

C5_RollbackRestores ==
    (last.op = "rollback_transaction")
        => (Committed = snapshot /\ temp_subtrees = subtrees)

(* C6: while a transaction is open an insert without the transaction       *)
(* argument fails with DbIsInReadonlyMode and changes nothing.             *)
C6_ReadonlyInsertFails ==
    [][(last'.op = "insert" /\ ~last'.tx /\ last'.ro)
        => /\ last'.err = "DbIsInReadonlyMode"
           /\ UNCHANGED <<subtrees, root_leaf_keys, root_tree, temp_subtrees,
                          temp_root_leaf_keys, temp_root_tree>>]_vars

IsPrefix(q, p) == Len(q) <= Len(p) /\ SubSeq(p, 1, Len(q)) = q

(* the entry naming the subtree at `path` is a Tree in the view *)
SubtreeExists(view, path) ==
    IF Len(path) = 1 THEN path[1] \in DOMAIN view.root_leaf_keys
    ELSE /\ get_raw(view.subtrees, Front(path), Last(path)).err = ""
         /\ get_raw(view.subtrees, Front(path), Last(path)).element.type = "Tree"

(* the batch inserts a Tree under the entry naming the subtree at `path` *)
InsertsTree(ops, path) ==
    \E j \in 1..Len(ops) :
        /\ ops[j].op = "Insert" /\ ops[j].element.type = "Tree"
        /\ ops[j].path = Front(path) /\ ops[j].key = Last(path)

PreView == IF last'.tx THEN Temp ELSE Committed

PostView ==
    IF last'.tx THEN View(temp_subtrees', temp_root_leaf_keys', temp_root_tree')
    ELSE View(subtrees', root_leaf_keys', root_tree')

(* C7: a batch that apply_batch accepts has, for each of its operations at *)
(* a non-empty path, a Tree as the entry naming that path: in the store    *)
(* before the batch, or inserted by an operation of the batch.  A parent   *)
(* entry that is an Item or a Reference, or absent, makes the batch fail.  *)
C7_ParentMustBeTree ==
    [][(IsBatch(last') /\ last'.err = "")
        => \A i \in 1..Len(last'.ops) :
              (last'.ops[i].path # << >>)
                => \/ SubtreeExists(PreView, last'.ops[i].path)
                   \/ InsertsTree(last'.ops, last'.ops[i].path)]_vars

(* C8: a batch that apply_batch accepts has no Insert at a path whose      *)
(* subtree, or a subtree above it, is deleted or overwritten by another    *)
(* operation of the batch, unless the batch inserts a Tree for that path.  *)
C8_InsertIntoDeletedRejected ==
    [][(IsBatch(last') /\ last'.err = "")
        => \A i \in 1..Len(last'.ops) :
              (last'.ops[i].op = "Insert" /\ last'.ops[i].path # << >>)
                => \/ InsertsTree(last'.ops, last'.ops[i].path)
                   \/ \A j \in 1..Len(last'.ops) :
                        ~ /\ IsPrefix(Append(last'.ops[j].path, last'.ops[j].key),
                                      last'.ops[i].path)
                          /\ SubtreeExists(PreView,
                                 Append(last'.ops[j].path, last'.ops[j].key))]_vars

(* C9: a batch with a Delete at the empty path is rejected and leaves the  *)
(* root leaves as they were.                                               *)
C9_RootDeleteRejected ==
    [][(IsBatch(last') /\ \E i \in 1..Len(last'.ops) :
            last'.ops[i].op = "Delete" /\ last'.ops[i].path = << >>)
        => /\ last'.err # ""
           /\ UNCHANGED <<root_leaf_keys, temp_root_leaf_keys>>]_vars

Perms(s) ==
    {[i \in 1..Len(s) |-> s[f[i]]] :
        f \in {g \in [1..Len(s) -> 1..Len(s)] :
                 \A a, b \in 1..Len(s) : g[a] = g[b] => a = b}}

(* C10: every permutation of a batch, applied to the store the batch was   *)
(* applied to, succeeds iff the batch did and then leaves the same root    *)
(* leaves, root tree and stored elements.                                  *)
C10_PermutationsAgree ==
    [][(IsBatch(last') /\ last'.fault = "none")
        => \A perm \in Perms(last'.ops) :
              \E r \in {apply_batch(PreView, "none", perm)} :
                 /\ (r.err = "") = (last'.err = "")
                 /\ (r.err = "")
                      => /\ r.view.root_leaf_keys = PostView.root_leaf_keys
                         /\ r.view.root_tree = PostView.root_tree
                         /\ \A p \in SubtreePaths :
                              StorageMerk(r.view.subtrees, p)
                                = StorageMerk(PostView.subtrees, p)]_vars

(* one operation of a batch applied alone, with its hash propagation *)
apply_one(view, op) ==
    IF op.op = "Insert" THEN insert(view, view.subtrees, op.path, op.key, op.element)
    ELSE delete(view, op.path, op.key)

RECURSIVE apply_in_order(_, _)
apply_in_order(view, ops) ==
    IF ops = << >> THEN Res("", view)
    ELSE LET r == apply_one(view, Head(ops))
         IN IF r.err # "" THEN r ELSE apply_in_order(r.view, Tail(ops))

SameStore(a, b) ==
    /\ a.root_leaf_keys = b.root_leaf_keys
    /\ a.root_tree = b.root_tree
    /\ \A p \in SubtreePaths : StorageMerk(a.subtrees, p) = StorageMerk(b.subtrees, p)

(* C11: the store after a successful apply_batch is the store obtained by  *)
(* applying the deduplicated operations of the batch one at a time in the  *)
(* sort order, each followed by its hash propagation.                      *)
C11_BatchEqualsSequential ==
    [][(IsBatch(last') /\ last'.err = "")
        => \E r \in {apply_in_order(PreView, insert_unique_ops(<< >>, last'.ops))} :
              r.err = "" /\ SameStore(r.view, PostView)]_vars

(* the call deletes the entry (path, key) and does not insert there *)
DeletesEntry(l, path, key) ==
    \/ l.op = "delete" /\ l.path = path /\ l.key = key
    \/ /\ IsBatch(l)
       /\ \E i \in 1..Len(l.ops) :
            l.ops[i].op = "Delete" /\ l.ops[i].path = path /\ l.ops[i].key = key
       /\ \A i \in 1..Len(l.ops) :
            ~(l.ops[i].op = "Insert" /\ l.ops[i].path = path /\ l.ops[i].key = key)

C13_InsertAfterDeleteWins ==
    [][(IsBatch(last') /\ last'.err = "")
        => \A i \in 1..Len(last'.ops) : \A j \in 1..Len(last'.ops) :
              (/\ i < j
               /\ last'.ops[i].op = "Delete" /\ last'.ops[j].op = "Insert"
               /\ last'.ops[i].path = last'.ops[j].path
               /\ last'.ops[i].key = last'.ops[j].key
               /\ last'.ops[j].path # << >>)
              => /\ get_raw(PostView.subtrees, last'.ops[j].path, last'.ops[j].key).err = ""
                 /\ SameElement(
                      get_raw(PostView.subtrees, last'.ops[j].path, last'.ops[j].key).element,
                      last'.ops[j].element)]_vars

(* C14: after apply_batch of [Insert([L], a, Tree), Insert([L, a], b,      *)
(* Item), Delete([L], a)] on a store with no entry ([L], a), get([L], a)   *)
(* fails, get([L, a], b) fails and the root tree is as before the batch.   *)
C14_InsertInsertDeleteLeavesNothing ==
    [][\A leaf \in Keys : \A a \in Keys : \A b \in Keys :
         (/\ IsBatch(last')
          /\ last'.ops = InsertInsertDelete(leaf, a, b)
          /\ leaf \in DOMAIN PreView.root_leaf_keys
          /\ get_raw(PreView.subtrees, <<leaf>>, a).err # "")
         => /\ get(PostView.subtrees, <<leaf>>, a).err # ""
            /\ get(PostView.subtrees, <<leaf, a>>, b).err # ""
            /\ PostView.root_tree = PreView.root_tree]_vars

(* the batch has a Delete at (path, key), the subtree at path exists and   *)
(* holds no entry under key                                                *)
DeletesMissingKey(l, view, path, key) ==
    /\ IsBatch(l)
    /\ \E i \in 1..Len(l.ops) :
         l.ops[i].op = "Delete" /\ l.ops[i].path = path /\ l.ops[i].key = key
    /\ SubtreeExists(view, path)
    /\ StorageMerk(view.subtrees, path)[key].type = "None"

MaxChain == 12

TEST_LEAF == <<116, 101, 115, 116, 95, 108, 101, 97, 102>>

(* the decimal digits of a number, as ASCII bytes *)
RECURSIVE Decimal(_)
Decimal(n) == IF n < 10 THEN <<48 + n>> ELSE Decimal(n \div 10) \o <<48 + (n % 10)>>

(* format!("key{}", idx).bytes() *)
keygen(idx) == <<107, 101, 121>> \o Decimal(idx)

ChainKeys == {keygen(i) : i \in 0..MaxChain}

ReferenceTo(i) == Reference(<<TEST_LEAF, keygen(i)>>)

(* make_grovedb with the leaf TEST_LEAF, empty *)
RefInit ==
    /\ subtrees = (compress_path(<<TEST_LEAF>>, NoKey) :> [k \in ChainKeys |-> NoElem])
    /\ root_leaf_keys = (TEST_LEAF :> 0)
    /\ root_tree = <<ZeroHash>>
    /\ temp_subtrees = << >>
    /\ temp_root_leaf_keys = << >>
    /\ temp_root_tree = << >>
    /\ is_readonly = FALSE
    /\ meta = [prefixes |-> {compress_path(<<TEST_LEAF>>, NoKey)},
               root_leafs |-> (TEST_LEAF :> 0)]
    /\ tx_meta = NoMeta
    /\ snapshot = EmptyView
    /\ steps = 0
    /\ last = [op |-> "open", tx |-> FALSE, path |-> << >>, key |-> NoKey,
               element |-> NoElem, ops |-> << >>, fault |-> "none", err |-> "",
               ro |-> FALSE]

(* db.insert(&[TEST_LEAF], keygen(steps), element, None) *)
RefInsert(element) ==
    /\ steps <= MaxChain
    /\ \E r \in {insert(Committed, subtrees, <<TEST_LEAF>>, keygen(steps), element)} :
          /\ r.err = ""
          /\ SetCommitted(r.view)
          /\ last' = Called("insert", FALSE, <<TEST_LEAF>>, keygen(steps), element,
                            << >>, "none", r.err)
    /\ steps' = steps + 1
    /\ UNCHANGED <<temp_subtrees, temp_root_leaf_keys, temp_root_tree,
                   is_readonly, meta, tx_meta, snapshot>>

(* db.get(&[TEST_LEAF], &keygen(i), None) *)
RefGet(i) ==
    /\ \E r \in {get(subtrees, <<TEST_LEAF>>, keygen(i))} :
          last' = Called("get", FALSE, <<TEST_LEAF>>, keygen(i), r.element,
                         << >>, "none", r.err)
    /\ UNCHANGED <<subtrees, root_leaf_keys, root_tree,
                   temp_subtrees, temp_root_leaf_keys, temp_root_tree,
                   is_readonly, meta, tx_meta, snapshot, steps>>

RefNext ==
    \/ steps = 0 /\ \E e \in {Item(1)} \cup {ReferenceTo(j) : j \in 0..MaxChain} :
                       RefInsert(e)
    \/ steps > 0 /\ RefInsert(ReferenceTo(steps - 1))
    \/ \E i \in 0..MaxChain : RefGet(i)

RefSpec == RefInit /\ [][RefNext]_vars

Entry(i) == StorageMerk(subtrees, <<TEST_LEAF>>)[keygen(i)]

(* key_i -> key_(i-1) -> ... -> key_(i-k+1) -> key_(i-k), and key_(i-k) is *)
(* an Item: a chain of k references                                        *)
IsChain(i, k) ==
    /\ Entry(i - k).type = "Item"
    /\ \A j \in (i - k + 1)..i : Entry(j) = ReferenceTo(j - 1)

(* the entry reached from key_i by n references, -1 when the walk leaves   *)
(* the references                                                          *)
RECURSIVE Walk(_, _)
Walk(i, n) ==
    IF n = 0 THEN i
    ELSE IF Entry(i).type # "Reference" THEN -1
    ELSE LET js == {j \in 0..MaxChain : Entry(i) = ReferenceTo(j)}
         IN IF js = {} THEN -1 ELSE Walk(CHOOSE j \in js : TRUE, n - 1)

(* key_i lies on a cycle of exactly n references *)
OnCycle(i, n) ==
    /\ Walk(i, n) = i
    /\ \A m \in 1..(n - 1) : Walk(i, m) # i

GotKey(i) == last.op = "get" /\ last.key = keygen(i)

(* C16: get on the head of a chain of k references returns the item when   *)
(* k <= MAX_REFERENCE_HOPS and fails with ReferenceLimit when k is larger; *)
(* get never returns a Reference.                                          *)
C16_ChainWithinLimit ==
    /\ \A i \in 0..MaxChain : \A k \in 0..i :
         (GotKey(i) /\ IsChain(i, k))
         => IF k <= MAX_REFERENCE_HOPS
            THEN last.err = "" /\ last.element = Entry(i - k)
            ELSE last.err = "ReferenceLimit"
    /\ (last.op = "get" /\ last.err = "") => last.element.type # "Reference"

C16_Witness ==
    /\ GotKey(MAX_REFERENCE_HOPS + 1)
    /\ IsChain(MAX_REFERENCE_HOPS + 1, MAX_REFERENCE_HOPS + 1)
    /\ last.err = "ReferenceLimit"

C16_WitnessResolved ==
    /\ GotKey(MAX_REFERENCE_HOPS)
    /\ IsChain(MAX_REFERENCE_HOPS, MAX_REFERENCE_HOPS)
    /\ last.err = "" /\ last.element = Item(1)

(* C17 as stated: get on an entry of a cycle of references, of any length, *)
(* fails with CyclicReference.                                             *)
C17_CycleAlwaysCyclicReference ==
    \A i \in 0..MaxChain : \A n \in 1..(MaxChain + 1) :
        (GotKey(i) /\ OnCycle(i, n)) => last.err = "CyclicReference"

(* C17 amended: get on an entry of a cycle of n references fails with      *)
(* CyclicReference when n < MAX_REFERENCE_HOPS, and with ReferenceLimit    *)
(* when n >= MAX_REFERENCE_HOPS (the hops run out before a path repeats).  *)
C17_CycleWithinLimit ==
    \A i \in 0..MaxChain : \A n \in 1..(MaxChain + 1) :
        (GotKey(i) /\ OnCycle(i, n))
        => last.err = (IF n < MAX_REFERENCE_HOPS THEN "CyclicReference"
                       ELSE "ReferenceLimit")

C17_Witness ==
    /\ GotKey(0) /\ OnCycle(0, MAX_REFERENCE_HOPS)
    /\ last.err = "ReferenceLimit"

C17_WitnessCyclic ==
    /\ GotKey(0) /\ OnCycle(0, 1)
    /\ last.err = "CyclicReference"

(***************************************************************************)
(* Proofs: GroveDb::prove (operations/proof/generate.rs) and               *)
(* GroveDb::execute_proof (operations/proof.rs).                           *)
(*                                                                         *)
(* A query is a set of keys or all keys, a direction, and a default        *)
(* subquery branch (subquery_key, subquery); conditional branches are left *)
(* empty.  Merk's proof of a query and its encoding are an op stream with  *)
(* one Push per stored key, KV for the keys the query names and KVHash for *)
(* the others, and a Parent after every Push but the first.                *)
(***************************************************************************)
HashLen == 32

MaxProofInserts == 1

NoLimit == -1

(* Query::insert_all: the full range of keys *)
AllKeys == Keys

(* the items of an absent subquery *)
NoQuery == {<< >>}

(* Query::new / insert_key / insert_all, with the default subquery branch: *)
(* subquery_key is NoKey when absent, subquery holds the items of the      *)
(* subquery (left to right, itself without subquery), NoQuery when absent  *)
Query(items, left_to_right, subquery_key, subquery) ==
    [items |-> items, left_to_right |-> left_to_right,
     subquery_key |-> subquery_key, subquery |-> subquery]

key_query(key) == Query({key}, TRUE, NoKey, NoQuery)

all_key_query(left_to_right) == Query(AllKeys, left_to_right, NoKey, NoQuery)

PathQuery(path, query, limit) == [path |-> path, query |-> query, limit |-> limit]

(* QueryItem::contains over the items of a query *)
Selects(query, key) == key \in query.items

(* usize::to_be_bytes on a 64-bit target, and its inverse *)
RECURSIVE be_bytes(_, _)
be_bytes(n, width) ==
    IF width = 0 THEN << >> ELSE be_bytes(n \div 256, width - 1) \o <<n % 256>>

(* to_be_bytes of a 32-bit length *)
to_be_bytes_u32(n) == be_bytes(n, 4)

to_be_bytes(n) == be_bytes(n, 8)

RECURSIVE from_be_bytes(_)
from_be_bytes(bs) ==
    IF bs = << >> THEN 0 ELSE from_be_bytes(Front(bs)) * 256 + Last(bs)

(* the tags of ProofType *)
MerkProof == 1

SizedMerkProof == 2

RootProof == 3

(* the bytes of a hash: the model keeps only their number *)
HashBytes(h) == [i \in 1..HashLen |-> Cardinality(h) % 256]

RECURSIVE SegmentsBytes(_)
SegmentsBytes(path) ==
    IF path = << >> THEN << >>
    ELSE <<Len(Head(path))>> \o Head(path) \o SegmentsBytes(Tail(path))

(* Element::serialize: the variant, its content, the absent flag *)
serialize(element) ==
    IF element.type = "Item" THEN <<0, 1, element.val, 0>>
    ELSE IF element.type = "Reference"
    THEN <<1, Len(element.ref)>> \o SegmentsBytes(element.ref) \o <<0>>
    ELSE <<2>> \o HashBytes(element.hash) \o <<0>>

RECURSIVE SortedKeys(_)
SortedKeys(S) ==
    IF S = {} THEN << >>
    ELSE LET m == CHOOSE x \in S : \A y \in S : BytesCmp(x, y) <= 0
         IN <<m>> \o SortedKeys(S \ {m})

Reverse(s) == [i \in 1..Len(s) |-> s[Len(s) + 1 - i]]

(* Merk::get_kv_pairs: the stored keys in the direction asked for *)
get_kv_pairs(merk, left_to_right) ==
    LET ks == SortedKeys({k \in DOMAIN merk : merk[k].type # "None"})
    IN IF left_to_right THEN ks ELSE Reverse(ks)

(* Merk::prove_without_encoding *)
prove_without_encoding(merk, query) ==
    LET ks == get_kv_pairs(merk, query.left_to_right)
    IN [i \in 1..Len(ks) |->
          IF Selects(query, ks[i])
          THEN [node |-> "KV", key |-> ks[i], value |-> merk[ks[i]]]
          ELSE [node |-> "KVHash", key |-> ks[i], value |-> merk[ks[i]]]]

(* the reference substitution of generate_and_store_merk_proof: the error  *)
(* of the first reference that does not resolve, "" when all do            *)
RECURSIVE substitution_error(_, _)
substitution_error(st, nodes) ==
    IF nodes = << >> THEN ""
    ELSE LET n == Head(nodes)
         IN IF n.node = "KV" /\ n.value.type = "Reference"
               /\ follow_reference(st, n.value.ref).err # ""
            THEN follow_reference(st, n.value.ref).err
            ELSE substitution_error(st, Tail(nodes))

substitute_references(st, nodes) ==
    [i \in 1..Len(nodes) |->
        IF nodes[i].node = "KV" /\ nodes[i].value.type = "Reference"
        THEN [nodes[i] EXCEPT !.value = follow_reference(st, @.ref).element]
        ELSE nodes[i]]

encode_node(n) ==
    IF n.node = "KV"
    THEN <<3, Len(n.key)>> \o n.key
         \o <<Len(serialize(n.value)) \div 256, Len(serialize(n.value)) % 256>>
         \o serialize(n.value)
    ELSE <<2>> \o HashBytes({<<n.key, n.value>>})

(* encode_into: Push(node) for every node, Parent after all but the first *)
RECURSIVE encode_into(_, _)
encode_into(nodes, first) ==
    IF nodes = << >> THEN << >>
    ELSE encode_node(Head(nodes)) \o (IF first THEN << >> ELSE <<16>>)
         \o encode_into(Tail(nodes), FALSE)

Proved(err, bytes) == [err |-> err, bytes |-> bytes]

(* generate_and_store_merk_proof: the bytes appended to the proof *)
generate_and_store_merk_proof(st, merk, query, proof_type) ==
    LET nodes == prove_without_encoding(merk, query)
        err == substitution_error(st, nodes)
        proof_bytes == encode_into(substitute_references(st, nodes), TRUE)
    IN IF err # "" THEN Proved(err, << >>)
       ELSE Proved("", <<proof_type>> \o to_be_bytes(Len(proof_bytes)) \o proof_bytes)

(* check_subtree_exists_path_not_found *)
check_subtree_exists(view, path) ==
    IF SubtreeExists(view, path) THEN "" ELSE "PathNotFound"

(* prove_subqueries.  The loop state is the position in the key/value      *)
(* pairs, is_leaf_tree and the bytes written so far.                       *)
RECURSIVE prove_subqueries(_, _, _, _)
RECURSIVE prove_subqueries_loop(_, _, _, _, _, _)
prove_subqueries_loop(view, path, query, pairs, is_leaf_tree, proofs) ==
    LET subtree == StorageMerk(view.subtrees, path)
    IN IF pairs = << >>
       THEN IF is_leaf_tree
            THEN LET p == generate_and_store_merk_proof(view.subtrees, subtree, query,
                                                        SizedMerkProof)
                 IN Proved(p.err, proofs \o p.bytes)
            ELSE Proved("", proofs)
       ELSE LET key == Head(pairs)
                element == subtree[key]
            IN IF query.subquery_key = NoKey /\ query.subquery = NoQuery
               THEN prove_subqueries_loop(view, path, query, Tail(pairs), is_leaf_tree, proofs)
               ELSE IF element.type # "Tree" \/ element.hash = ZeroHash
               THEN prove_subqueries_loop(view, path, query, Tail(pairs), is_leaf_tree, proofs)
               ELSE LET all == IF is_leaf_tree
                               THEN generate_and_store_merk_proof(
                                      view.subtrees, subtree,
                                      all_key_query(query.left_to_right), MerkProof)
                               ELSE Proved("", << >>)
                        has_both == query.subquery # NoQuery /\ query.subquery_key # NoKey
                        inner == IF has_both
                                 THEN generate_and_store_merk_proof(
                                        view.subtrees,
                                        StorageMerk(view.subtrees, Append(path, key)),
                                        key_query(query.subquery_key), MerkProof)
                                 ELSE Proved("", << >>)
                        new_path == IF has_both
                                    THEN path \o <<key, query.subquery_key>>
                                    ELSE Append(path, key)
                        new_query == IF query.subquery = NoQuery
                                     THEN key_query(query.subquery_key)
                                     ELSE Query(query.subquery, TRUE, NoKey, NoQuery)
                        written == proofs \o all.bytes \o inner.bytes
                    IN IF all.err # "" THEN Proved(all.err, proofs)
                       ELSE IF inner.err # "" THEN Proved(inner.err, proofs)
                       ELSE IF check_subtree_exists(view, new_path) # ""
                       THEN prove_subqueries_loop(view, path, query, Tail(pairs),
                                                  FALSE, written)
                       ELSE LET sub == prove_subqueries(view, new_path, new_query, NoLimit)
                            IN IF sub.err # "" THEN Proved(sub.err, written)
                               ELSE prove_subqueries_loop(view, path, query, Tail(pairs),
                                                          FALSE, written \o sub.bytes)

prove_subqueries(view, path, query, limit) ==
    IF limit = 0 THEN Proved("", << >>)
    ELSE prove_subqueries_loop(
           view, path, query,
           get_kv_pairs(StorageMerk(view.subtrees, path), query.left_to_right),
           TRUE, << >>)

(* the number of sibling hashes in the Merkle proof of one leaf out of n *)
RECURSIVE root_proof_hashes(_, _)
root_proof_hashes(n, index) ==
    IF n <= 1 THEN 0
    ELSE (IF (index % 2 = 0 /\ index + 1 < n) \/ index % 2 = 1 THEN 1 ELSE 0)
         + root_proof_hashes((n + 1) \div 2, index \div 2)

(* root_tree.proof(&index_to_prove).to_bytes() *)
root_proof(view, index) ==
    [i \in 1..(HashLen * root_proof_hashes(Len(view.root_tree), index)) |-> 0]

(* prove_path: the proofs of the ancestors, then the root proof *)
RECURSIVE prove_path(_, _)
prove_path(view, path_slices) ==
    IF path_slices = << >> THEN Proved("", << >>)
    ELSE LET key == Last(path_slices)
             path_slice == Front(path_slices)
         IN IF path_slice = << >>
            THEN IF key \notin DOMAIN view.root_leaf_keys
                 THEN Proved("InvalidPath", << >>)
                 ELSE LET index == view.root_leaf_keys[key]
                          bytes == root_proof(view, index)
                      IN Proved("", <<RootProof>> \o to_be_bytes(Len(bytes)) \o bytes
                                    \o <<Cardinality(DOMAIN view.root_leaf_keys) % 256>>
                                    \o <<index % 256>>)
            ELSE LET p == generate_and_store_merk_proof(
                            view.subtrees, StorageMerk(view.subtrees, path_slice),
                            key_query(key), MerkProof)
                     rest == prove_path(view, path_slice)
                 IN IF p.err # "" THEN p
                    ELSE Proved(rest.err, p.bytes \o rest.bytes)

(* GroveDb::prove of generate.rs *)
prove(view, query) ==
    IF query.path = << >> THEN Proved("InvalidPath", << >>)
    ELSE IF check_subtree_exists(view, query.path) # ""
    THEN Proved(check_subtree_exists(view, query.path), << >>)
    ELSE LET sub == prove_subqueries(view, query.path, query.query, query.limit)
             up == prove_path(view, query.path)
         IN IF sub.err # "" THEN Proved(sub.err, << >>)
            ELSE IF up.err # "" THEN Proved(up.err, << >>)
            ELSE Proved("", sub.bytes \o up.bytes)

(* GroveDb::execute_proof of proof.rs: Err(Error::InvalidProof("proof      *)
(* invalid")) whatever the bytes                                           *)
execute_proof(proof) ==
    [err |-> "InvalidProof", root_hash |-> << >>, result |-> {}]

(* the path queries asked of the store *)
ProofPaths == {<<K1>>, <<K2>>, <<K1, K2>>, <<K1, K2, K1>>}

ProofQueries ==
    {PathQuery(path, Query(items, TRUE, subquery_key, subquery), NoLimit) :
        path \in ProofPaths, items \in {AllKeys, {K1}},
        subquery_key \in {NoKey, K1}, subquery \in {NoQuery, AllKeys}}
    \cup {PathQuery(path, Query(AllKeys, FALSE, NoKey, subquery), NoLimit) :
             path \in ProofPaths, subquery \in {NoQuery, AllKeys}}
    \cup {PathQuery(path, all_key_query(TRUE), 0) : path \in ProofPaths}

ProofInit == Init /\ ~is_readonly

(* the writes come first: prove and execute_proof leave the store as it is *)
ProofInsert(path, key, element) ==
    /\ steps < MaxProofInserts
    /\ last.op \notin {"prove", "execute_proof"}
    /\ Insert(path, key, element, FALSE)

(* GroveDb::prove *)
Prove(query) ==
    /\ last.op \notin {"prove", "execute_proof"}
    /\ \E p \in {prove(Committed, query)} :
          last' = [op |-> "prove", query |-> query, err |-> p.err, proof |-> p.bytes]
    /\ UNCHANGED <<subtrees, root_leaf_keys, root_tree,
                   temp_subtrees, temp_root_leaf_keys, temp_root_tree,
                   is_readonly, meta, tx_meta, snapshot, steps>>

(* the proof with the byte at position i replaced; position 0 leaves it *)
Modified(proof, i) ==
    IF i = 0 THEN proof ELSE [proof EXCEPT ![i] = (@ + 1) % 256]

(* GroveDb::execute_proof on the bytes prove returned, as they are or with *)
(* one byte changed                                                        *)
ExecuteProof(i) ==
    /\ last.op = "prove" /\ last.err = ""
    /\ i <= Len(last.proof)
    /\ \E r \in {execute_proof(Modified(last.proof, i))} :
          last' = [op |-> "execute_proof", query |-> last.query,
                   proved |-> last.proof, proof |-> Modified(last.proof, i),
                   err |-> r.err, root_hash |-> r.root_hash, result |-> r.result]
    /\ UNCHANGED <<subtrees, root_leaf_keys, root_tree,
                   temp_subtrees, temp_root_leaf_keys, temp_root_tree,
                   is_readonly, meta, tx_meta, snapshot, steps>>

ProofNext ==
    \/ \E element \in InputElements : \E path \in InsertPaths(element) : \E key \in Keys :
         ProofInsert(path, key, element)
    \/ \E query \in ProofQueries : Prove(query)
    \/ \E i \in {0, 1, 10} : ExecuteProof(i)

ProofSpec == ProofInit /\ [][ProofNext]_vars

(* the key/value pairs a query without subquery selects in its subtree *)
Selected(view, query) ==
    {<<k, StorageMerk(view.subtrees, query.path)[k]>> :
        k \in {x \in Keys : /\ Selects(query.query, x)
                            /\ StorageMerk(view.subtrees, query.path)[x].type # "None"}}

(* C18: verifying the bytes prove returned succeeds and yields the root    *)
(* hash of the store and the pairs the query selects; verifying modified   *)
(* bytes fails with InvalidProof.                                          *)
C18_ProofVerifies ==
    (last.op = "execute_proof")
    => IF last.proof = last.proved
       THEN /\ last.err = ""
            /\ last.root_hash = root_tree
            /\ (last.query.query.subquery_key = NoKey /\ last.query.query.subquery = NoQuery
                /\ last.query.limit = NoLimit)
               => last.result = Selected(Committed, last.query)
       ELSE last.err = "InvalidProof"

(* a reader that reads a tag and an 8-byte big-endian length and skips     *)
(* that many bytes, until the bytes end: TRUE when they end after a        *)
(* payload                                                                 *)
RECURSIVE SkipsToEnd(_)
SkipsToEnd(bytes) ==
    IF bytes = << >> THEN TRUE
    ELSE IF Len(bytes) < 9 THEN FALSE
    ELSE /\ bytes[1] \in {MerkProof, SizedMerkProof, RootProof}
         /\ from_be_bytes(SubSeq(bytes, 2, 9)) <= Len(bytes) - 9
         /\ SkipsToEnd(SubSeq(bytes, 10 + from_be_bytes(SubSeq(bytes, 2, 9)), Len(bytes)))

(* the bytes left when the same reader has skipped the payload of the      *)
(* first RootProof segment; <<-1>> when the framing breaks before it       *)
RECURSIVE AfterRootProof(_)
AfterRootProof(bytes) ==
    IF Len(bytes) < 9 \/ bytes[1] \notin {MerkProof, SizedMerkProof, RootProof}
       \/ from_be_bytes(SubSeq(bytes, 2, 9)) > Len(bytes) - 9
    THEN <<-1>>
    ELSE LET rest == SubSeq(bytes, 10 + from_be_bytes(SubSeq(bytes, 2, 9)), Len(bytes))
         IN IF bytes[1] = RootProof THEN rest ELSE AfterRootProof(rest)

(* C19 as stated: every segment of the bytes of prove is tag, 8-byte       *)
(* big-endian length, payload of that length, the RootProof segment        *)
(* included, so that skipping the payloads consumes the bytes exactly.     *)
C19_SkippingConsumesAll ==
    (last.op = "prove" /\ last.err = "") => SkipsToEnd(last.proof)

(* C19 amended: the segments are framed as stated up to and including the  *)
(* payload of the RootProof segment, whose length counts the root proof    *)
(* bytes only; the leaf count and the index of the top-level subtree       *)
(* follow it unframed, one byte each, and end the bytes.                   *)
C19_RootProofTrailer ==
    (last.op = "prove" /\ last.err = "")
    => AfterRootProof(last.proof)
         = <<Cardinality(DOMAIN root_leaf_keys), root_leaf_keys[last.query.path[1]]>>

C19_Witness ==
    /\ last.op = "prove" /\ last.err = ""
    /\ Len(last.query.path) = 2
    /\ last.proof[1] = SizedMerkProof
    /\ from_be_bytes(SubSeq(last.proof, 2, 9)) > 0
    /\ Len(AfterRootProof(last.proof)) = 2

(***************************************************************************)
(* Chunk proofs of one Merk (merk/chunks.rs, proofs/chunk.rs).             *)
(*                                                                         *)
(* A Merk is a balanced binary tree; it is held as a function from heap    *)
(* positions (root 1, children of i at 2i and 2i + 1) to keys.  The keys   *)
(* are the ranks 1..n of the nodes in key order, so the raw iterator of    *)
(* the storage visits key k at position k.  A node hash is the nesting     *)
(* <<key, hash of left, hash of right>>, which binds content and shape;    *)
(* the hash of a missing child is the empty tuple.                         *)
(***************************************************************************)

MIN_TRUNK_HEIGHT == 5

MaxHeight == 10

NoDepthLimit == -1

NULL_HASH == << >>

TreeKinds == {"perfect", "left", "right", "leftfull", "leftright"}

(* The kinds and heights of the two children of a node of the given kind   *)
(* and height >= 1; every kind keeps the heights of siblings within one.   *)
Children(kind, h) ==
    CASE kind = "perfect"   -> <<"perfect", h - 1, "perfect", h - 1>>
      [] kind = "left"      -> <<"left", h - 1, "left", h - 2>>
      [] kind = "right"     -> <<"right", h - 2, "right", h - 1>>
      [] kind = "leftfull"  -> IF h = 2 THEN <<"leftfull", 1, "leftfull", 1>>
                               ELSE <<"leftfull", h - 1, "leftfull", h - 2>>
      [] kind = "leftright" -> <<"left", h - 1, "right", h - 2>>

RECURSIVE Shape(_, _, _)
Shape(kind, h, i) ==
    IF h <= 0 THEN {}
    ELSE LET c == Children(kind, h)
         IN {i} \cup Shape(c[1], c[2], 2 * i) \cup Shape(c[3], c[4], 2 * i + 1)

RECURSIVE InOrder(_, _)
InOrder(nodes, i) ==
    IF i \notin nodes THEN << >>
    ELSE InOrder(nodes, 2 * i) \o <<i>> \o InOrder(nodes, 2 * i + 1)

(* The Merk of a shape: tree maps heap positions to keys, order maps keys  *)
(* to heap positions.                                                      *)
MerkOf(nodes) ==
    LET order == InOrder(nodes, 1)
    IN [tree  |-> [i \in nodes |-> CHOOSE k \in 1..Len(order) : order[k] = i],
        order |-> order]

HasLeft(merk, i) == (2 * i) \in DOMAIN merk.tree

HasRight(merk, i) == (2 * i + 1) \in DOMAIN merk.tree

RECURSIVE NodeHash(_, _)
NodeHash(merk, i) ==
    IF i \notin DOMAIN merk.tree THEN NULL_HASH
    ELSE <<merk.tree[i], NodeHash(merk, 2 * i), NodeHash(merk, 2 * i + 1)>>

merk_root_hash(merk) == NodeHash(merk, 1)

(* Proof operators and nodes (proofs/mod.rs).                              *)
PushKV(key) == [op |-> "Push", type |-> "KV", key |-> key, hash |-> NULL_HASH]

PushKVHash(key) == [op |-> "Push", type |-> "KVHash", key |-> key, hash |-> NULL_HASH]

PushHash(hash) == [op |-> "Push", type |-> "Hash", key |-> 0, hash |-> hash]

OpParent == [op |-> "Parent", type |-> "", key |-> 0, hash |-> NULL_HASH]

OpChild == [op |-> "Child", type |-> "", key |-> 0, hash |-> NULL_HASH]

(* RefWalker::traverse_for_height_proof: walks the left edge down to the   *)
(* leaf, takes half its depth as the trunk height, and on the way back up  *)
(* emits the nodes below the trunk as KVHash with their right child hash.  *)
RECURSIVE traverse_for_height_proof(_, _, _)
traverse_for_height_proof(merk, i, depth) ==
    LET sub == IF HasLeft(merk, i)
               THEN traverse_for_height_proof(merk, 2 * i, depth + 1)
               ELSE [trunk_height |-> depth \div 2, proof |-> << >>]
    IN IF depth > sub.trunk_height
       THEN [trunk_height |-> sub.trunk_height,
             proof |-> sub.proof
                       \o <<PushKVHash(merk.tree[i])>>
                       \o (IF HasLeft(merk, i) THEN <<OpParent>> ELSE << >>)
                       \o (IF HasRight(merk, i)
                           THEN <<PushHash(NodeHash(merk, 2 * i + 1)), OpChild>>
                           ELSE << >>)]
       ELSE sub

(* RefWalker::traverse_for_trunk: KV nodes down to the remaining depth,    *)
(* Hash nodes below it; the leftmost bottom node is already in the proof.  *)
RECURSIVE traverse_for_trunk(_, _, _, _)
traverse_for_trunk(merk, i, remaining_depth, is_leftmost) ==
    IF remaining_depth = 0
    THEN IF is_leftmost THEN << >> ELSE <<PushHash(NodeHash(merk, i))>>
    ELSE (IF HasLeft(merk, i)
          THEN traverse_for_trunk(merk, 2 * i, remaining_depth - 1, is_leftmost)
          ELSE << >>)
         \o <<PushKV(merk.tree[i])>>
         \o (IF HasLeft(merk, i) THEN <<OpParent>> ELSE << >>)
         \o (IF HasRight(merk, i)
             THEN traverse_for_trunk(merk, 2 * i + 1, remaining_depth - 1, FALSE)
                  \o <<OpChild>>
             ELSE << >>)

(* create_trunk_proof that compares the length of the left edge, not half *)
(* of it, with MIN_TRUNK_HEIGHT                                            *)
create_trunk_proof_unhalved(merk) ==
    LET hp == traverse_for_height_proof(merk, 1, 1)
    IN IF 2 * hp.trunk_height < MIN_TRUNK_HEIGHT
       THEN [proof |-> traverse_for_trunk(merk, 1, NoDepthLimit, TRUE),
             has_more |-> FALSE]
       ELSE [proof |-> hp.proof \o traverse_for_trunk(merk, 1, hp.trunk_height, TRUE),
             has_more |-> TRUE]

(* RefWalker::create_trunk_proof.                                          *)
create_trunk_proof(merk) ==
    LET hp == traverse_for_height_proof(merk, 1, 1)
    IN IF hp.trunk_height < MIN_TRUNK_HEIGHT
       THEN [proof |-> traverse_for_trunk(merk, 1, NoDepthLimit, TRUE),
             has_more |-> FALSE]
       ELSE [proof |-> hp.proof \o traverse_for_trunk(merk, 1, hp.trunk_height, TRUE),
             has_more |-> TRUE]

(* get_next_chunk: reads the raw iterator from position pos up to, and not *)
(* including, end_key (0 for none), rebuilding the operators from each     *)
(* node's links; stack holds the keys of the right children entered.       *)
(* get_next_chunk_turn is one turn of its loop, on the state st of chunk,  *)
(* stack and iterator position.                                            *)
get_next_chunk_turn(merk, st) ==
    LET pos == st.pos
        i == merk.order[pos]
        stack == st.stack
        pushed == st.chunk \o <<PushKV(pos)>>
                  \o (IF HasLeft(merk, i) THEN <<OpParent>> ELSE << >>)
        closed == CHOOSE n \in 0..Len(stack) :
                     /\ \A j \in 1..n : stack[Len(stack) + 1 - j] <= pos
                     /\ n < Len(stack) => stack[Len(stack) - n] > pos
    IN IF HasRight(merk, i)
       THEN [chunk |-> pushed, stack |-> Append(stack, merk.tree[2 * i + 1]),
             pos |-> pos + 1]
       ELSE [chunk |-> pushed \o [j \in 1..closed |-> OpChild],
             stack |-> SubSeq(stack, 1, Len(stack) - closed),
             pos |-> pos + 1]

(* At most n turns of the loop, which ends where the iterator is no longer *)
(* valid or stands on end_key; split in halves to keep the nesting shallow.*)
RECURSIVE get_next_chunk_loop(_, _, _, _)
get_next_chunk_loop(merk, end_key, n, st) ==
    IF n = 0 \/ st.pos > Len(merk.order) \/ st.pos = end_key THEN st
    ELSE IF n = 1 THEN get_next_chunk_turn(merk, st)
    ELSE get_next_chunk_loop(merk, end_key, n - n \div 2,
             get_next_chunk_loop(merk, end_key, n \div 2, st))

(* after the loop the iterator steps over end_key *)
get_next_chunk(merk, pos, end_key) ==
    LET r == get_next_chunk_loop(merk, end_key, Len(merk.order),
                 [chunk |-> << >>, stack |-> << >>, pos |-> pos])
    IN [chunk |-> r.chunk,
        pos |-> IF r.pos <= Len(merk.order) THEN r.pos + 1 ELSE r.pos]

(* The tree a proof is executed into (proofs/tree.rs): a node with the     *)
(* trees attached as its left and right child, Nil where there is none.    *)
Nil == [type |-> "Nil"]

ProofLeaf(o) == [type |-> o.type, key |-> o.key, hash |-> o.hash,
                 left |-> Nil, right |-> Nil]

(* execute: Push puts a node on the stack, Parent attaches the tree below  *)
(* the top as the left child of the top, Child attaches the top as the     *)
(* right child of the tree below it; one tree must remain.  execute_op is  *)
(* one turn of its loop on the state st of error and stack.                *)
execute_op(st, o) ==
    LET stack == st.stack
        n == Len(stack)
        failed(e) == [err |-> e, stack |-> << >>]
    IN IF st.err # "" THEN st
       ELSE IF o.op = "Push"
       THEN [err |-> "", stack |-> Append(stack, ProofLeaf(o))]
       ELSE IF n < 2
       THEN failed("Stack underflow")
       ELSE IF o.op = "Parent"
       THEN IF stack[n].left.type # "Nil"
            THEN failed("Tried to attach to left child, but it is already Some")
            ELSE [err |-> "",
                  stack |-> Append(SubSeq(stack, 1, n - 2),
                                   [stack[n] EXCEPT !.left = stack[n - 1]])]
       ELSE IF stack[n - 1].right.type # "Nil"
            THEN failed("Tried to attach to right child, but it is already Some")
            ELSE [err |-> "",
                  stack |-> Append(SubSeq(stack, 1, n - 2),
                                   [stack[n - 1] EXCEPT !.right = stack[n]])]

(* The loop over ops[lo..hi], split in halves to keep the nesting shallow. *)
RECURSIVE execute_loop(_, _, _, _)
execute_loop(ops, lo, hi, st) ==
    IF lo > hi \/ st.err # "" THEN st
    ELSE IF lo = hi THEN execute_op(st, ops[lo])
    ELSE LET mid == (lo + hi) \div 2
         IN execute_loop(ops, mid + 1, hi, execute_loop(ops, lo, mid, st))

execute(ops) ==
    LET st == execute_loop(ops, 1, Len(ops), [err |-> "", stack |-> << >>])
    IN IF st.err # "" THEN [err |-> st.err, tree |-> Nil]
       ELSE IF Len(st.stack) # 1
       THEN [err |-> "Expected proof to result in exactly one stack item", tree |-> Nil]
       ELSE [err |-> "", tree |-> st.stack[1]]

(* ProofTree::hash.                                                        *)
RECURSIVE proof_hash(_)
proof_hash(t) ==
    IF t.type = "Nil" THEN NULL_HASH
    ELSE IF t.type = "Hash" THEN t.hash
    ELSE <<t.key, proof_hash(t.left), proof_hash(t.right)>>

(* ProofTree::layer: the nodes at the given depth, left to right.          *)
RECURSIVE layer(_, _)
layer(t, depth) ==
    IF t.type = "Nil" THEN << >>
    ELSE IF depth = 0 THEN <<t>>
    ELSE layer(t.left, depth - 1) \o layer(t.right, depth - 1)

(* The keys of the KV nodes a proof pushes.                                *)
kv_keys(ops) == {ops[k].key : k \in {j \in 1..Len(ops) : ops[j].type = "KV"}}

kv_only(ops) == \A k \in 1..Len(ops) : ops[k].op = "Push" => ops[k].type = "KV"

(* verify_leaf.                                                            *)
verify_leaf(ops, expected_hash) ==
    LET r == execute(ops)
    IN IF ~kv_only(ops) THEN "Leaf chunks must contain full subtree"
       ELSE IF r.err # "" THEN r.err
       ELSE IF proof_hash(r.tree) # expected_hash
       THEN "Leaf chunk proof did not match expected hash"
       ELSE ""

RECURSIVE verify_height_proof(_)
verify_height_proof(t) ==
    IF t.left.type = "Nil" THEN 1
    ELSE IF t.left.type = "Hash" THEN -1
    ELSE LET h == verify_height_proof(t.left)
         IN IF h < 0 THEN -1 ELSE h + 1

RECURSIVE verify_completeness(_, _, _)
verify_completeness(t, remaining_depth, leftmost) ==
    IF remaining_depth > 0
    THEN /\ t.type = "KV"
         /\ t.left.type # "Nil" => verify_completeness(t.left, remaining_depth - 1, leftmost)
         /\ t.right.type # "Nil" => verify_completeness(t.right, remaining_depth - 1, FALSE)
    ELSE IF ~leftmost THEN t.type = "Hash"
    ELSE t.type = "KVHash"

(* verify_trunk: the error, the tree and the height of the height proof.   *)
verify_trunk(ops) ==
    LET r == execute(ops)
        height == verify_height_proof(r.tree)
        failed(e) == [err |-> e, tree |-> Nil, height |-> 0]
    IN IF r.err # "" THEN failed(r.err)
       ELSE IF height < 0
       THEN failed("Expected height proof to only contain KV and KVHash nodes")
       ELSE IF height \div 2 < MIN_TRUNK_HEIGHT
       THEN IF ~kv_only(ops) THEN failed("Leaf chunks must contain full subtree")
            ELSE [err |-> "", tree |-> r.tree, height |-> height]
       ELSE IF ~verify_completeness(r.tree, height \div 2, TRUE)
       THEN failed("Expected trunk nodes of the right kind")
       ELSE [err |-> "", tree |-> r.tree, height |-> height]

(* ChunkProducer::new: the trunk, the keys of its KV nodes as boundaries   *)
(* when there are more chunks, and the raw iterator at the first key.      *)
ChunkProducer_new(merk) ==
    LET t == IF merk.order = << >> THEN [proof |-> << >>, has_more |-> FALSE]
             ELSE create_trunk_proof(merk)
        kv == {k \in 1..Len(t.proof) : t.proof[k].type = "KV"}
    IN [trunk |-> t.proof,
        chunk_boundaries |-> IF t.has_more
                             THEN [b \in 1..Cardinality(kv) |->
                                      t.proof[CHOOSE k \in kv :
                                          Cardinality({j \in kv : j <= k}) = b].key]
                             ELSE << >>,
        raw_iter |-> 1,
        index |-> 0]

(* ChunkProducer::len.                                                     *)
producer_len(p) ==
    IF Len(p.chunk_boundaries) = 0 THEN 1 ELSE Len(p.chunk_boundaries) + 2

(* ChunkProducer::next_chunk, called with index < len.                     *)
next_chunk(merk, p) ==
    IF p.index = 0
    THEN IF Len(p.trunk) = 0
         THEN [err |-> "Attempted to fetch chunk on empty tree", chunk |-> << >>,
               producer |-> p]
         ELSE [err |-> "", chunk |-> p.trunk,
               producer |-> [p EXCEPT !.index = 1]]
    ELSE LET end_key == IF p.index - 1 < Len(p.chunk_boundaries)
                        THEN p.chunk_boundaries[p.index] ELSE 0
             r == get_next_chunk(merk, p.raw_iter, end_key)
         IN [err |-> "", chunk |-> r.chunk,
             producer |-> [p EXCEPT !.index = p.index + 1, !.raw_iter = r.pos]]

(* ChunkProducer::chunk with the storage read one key too early: the       *)
(* iterator is left on the preceding boundary key.                         *)
chunk_without_skip(merk, p, index) ==
    IF index >= producer_len(p)
    THEN [err |-> "Chunk index out-of-bounds", chunk |-> << >>, producer |-> p]
    ELSE next_chunk(merk,
            [p EXCEPT !.index = index,
                      !.raw_iter = IF index \in {0, 1} THEN 1
                                   ELSE p.chunk_boundaries[index - 1]])

(* ChunkProducer::chunk: the iterator is put on the first key for chunks 0 *)
(* and 1, and right after the boundary that precedes the chunk otherwise.  *)
chunk(merk, p, index) ==
    IF index >= producer_len(p)
    THEN [err |-> "Chunk index out-of-bounds", chunk |-> << >>, producer |-> p]
    ELSE next_chunk(merk,
            [p EXCEPT !.index = index,
                      !.raw_iter = IF index \in {0, 1} THEN 1
                                   ELSE p.chunk_boundaries[index - 1] + 1])

(***************************************************************************)
(* ChunkSpec: one Merk, opened at the empty prefix, is walked by a chunk   *)
(* producer.  The chunks are taken in order through ChunkIter, or by index *)
(* through ChunkProducer::chunk; the chunks taken in order may be verified *)
(* by a receiver, as in generate_and_verify_chunks.  subtrees holds the    *)
(* Merk, snapshot the ChunkProducer, temp_subtrees what the receiver has   *)
(* verified so far, steps the calls of next on a producer that was only    *)
(* iterated.                                                               *)
(***************************************************************************)

MaxAfterEnd == 2

NoProducer == [trunk |-> << >>, chunk_boundaries |-> << >>, raw_iter |-> 0, index |-> -1]

NothingReceived == [height |-> 0, trunk_hash |-> NULL_HASH, leaves |-> << >>,
                    keys |-> {}, verified |-> 0]

SourceMerk == subtrees[NoKey]

(* what a call returned: index is the chunk asked for, jump tells that the *)
(* producer stood at another index before the call, none that next         *)
(* returned None, and random that chunk has been called on the producer    *)
ChunkCalled(op, index, r, none, random) ==
    [op |-> op, index |-> index, jump |-> snapshot.index # index, chunk |-> r.chunk,
     err |-> r.err, none |-> none, random |-> random]

NoChunk == [chunk |-> << >>, err |-> ""]

ChunkInit ==
    /\ \E kind \in TreeKinds, h \in 0..MaxHeight :
          subtrees = (NoKey :> MerkOf(Shape(kind, h, 1)))
    /\ root_leaf_keys = << >>
    /\ root_tree = << >>
    /\ temp_subtrees = NothingReceived
    /\ temp_root_leaf_keys = << >>
    /\ temp_root_tree = << >>
    /\ is_readonly = FALSE
    /\ meta = NoMeta
    /\ tx_meta = NoMeta
    /\ snapshot = NoProducer
    /\ steps = 0
    /\ last = [op |-> "open", index |-> 0, jump |-> FALSE, chunk |-> << >>, err |-> "",
               none |-> FALSE, random |-> FALSE]

UnchangedByChunks ==
    UNCHANGED <<subtrees, root_leaf_keys, root_tree, temp_root_leaf_keys,
                temp_root_tree, is_readonly, meta, tx_meta>>

(* Merk::chunks: builds the producer, and with it the trunk.               *)
Chunks ==
    /\ last.op = "open"
    /\ snapshot' = ChunkProducer_new(SourceMerk)
    /\ last' = [ChunkCalled("chunks", 0, NoChunk, FALSE, FALSE) EXCEPT !.jump = FALSE]
    /\ steps' = steps
    /\ UNCHANGED temp_subtrees
    /\ UnchangedByChunks

(* ChunkIter::next: None once the index has reached len, the next chunk    *)
(* before that.                                                            *)
NextChunk ==
    /\ last.op # "open"
    /\ last.op \in {"verify_trunk", "verify_leaf"} => last.err = ""
    /\ steps < producer_len(snapshot) + MaxAfterEnd
    /\ IF snapshot.index >= producer_len(snapshot)
       THEN /\ last' = ChunkCalled("next_chunk", snapshot.index, NoChunk, TRUE, last.random)
            /\ UNCHANGED snapshot
       ELSE \E r \in {next_chunk(SourceMerk, snapshot)} :
              /\ snapshot' = r.producer
              /\ last' = ChunkCalled("next_chunk", snapshot.index, r, FALSE, last.random)
    /\ steps' = IF last.random THEN steps ELSE steps + 1
    /\ UNCHANGED temp_subtrees
    /\ UnchangedByChunks

(* ChunkProducer::chunk(index), on a producer whose chunks are not being   *)
(* verified; index may be out of bounds by one.                            *)
ChunkAt(index) ==
    /\ last.op # "open"
    /\ temp_subtrees = NothingReceived
    /\ \E r \in {chunk(SourceMerk, snapshot, index)} :
          /\ snapshot' = r.producer
          /\ last' = ChunkCalled("chunk", index, r, FALSE, TRUE)
    /\ steps' = 0
    /\ UNCHANGED temp_subtrees
    /\ UnchangedByChunks

(* The receiver verifies the chunk just yielded by next, when it has       *)
(* verified all the chunks before it: the first with verify_trunk, keeping *)
(* the hashes of the trunk's bottom layer; chunk i after it with           *)
(* verify_leaf against the i-th of these hashes.  Where the layer has no   *)
(* i-th node the zip of chunks and layer ends and the chunk stays          *)
(* unverified.                                                             *)
VerifyChunk ==
    /\ last.op = "next_chunk"
    /\ last.err = "" /\ ~last.none /\ ~last.random
    /\ last.index = temp_subtrees.verified
    /\ IF last.index = 0
       THEN \E v \in {verify_trunk(last.chunk)} :
              /\ last' = [last EXCEPT !.op = "verify_trunk", !.err = v.err]
              /\ temp_subtrees' =
                   IF v.err # "" THEN temp_subtrees
                   ELSE LET bottom == layer(v.tree, v.height \div 2)
                        IN [height |-> v.height,
                            trunk_hash |-> proof_hash(v.tree),
                            leaves |-> [i \in 1..Len(bottom) |-> proof_hash(bottom[i])],
                            keys |-> kv_keys(last.chunk),
                            verified |-> 1]
       ELSE \E e \in {IF last.index > Len(temp_subtrees.leaves)
                      THEN "No trunk node for this chunk"
                      ELSE verify_leaf(last.chunk, temp_subtrees.leaves[last.index])} :
              /\ last' = [last EXCEPT !.op = "verify_leaf", !.err = e]
              /\ temp_subtrees' =
                   IF e # "" THEN temp_subtrees
                   ELSE [temp_subtrees EXCEPT
                           !.keys = @ \cup kv_keys(last.chunk),
                           !.verified = @ + 1]
    /\ steps' = steps
    /\ UNCHANGED snapshot
    /\ UnchangedByChunks

ChunkNext ==
    \/ Chunks
    \/ NextChunk
    \/ \E index \in 0..producer_len(snapshot) : ChunkAt(index)
    \/ VerifyChunk

ChunkSpec == ChunkInit /\ [][ChunkNext]_vars

(* C20: for every non-empty Merk the first chunk verifies as a trunk whose *)
(* hash is the root hash of the Merk, every later chunk i verifies as a    *)
(* leaf chunk against the hash of the i-th node of the trunk's bottom      *)
(* layer, and the chunks together carry every key of the Merk, so that     *)
(* replaying them rebuilds a Merk with the same root hash.                 *)
C20_ChunksVerify ==
    /\ last.op = "verify_trunk"
       => /\ last.err = ""
          /\ temp_subtrees.trunk_hash = merk_root_hash(SourceMerk)
    /\ last.op = "verify_leaf" => last.err = ""
    /\ (last.op \in {"verify_trunk", "verify_leaf"}
          /\ temp_subtrees.verified = producer_len(snapshot))
       => temp_subtrees.keys = 1..Len(SourceMerk.order)

(* C21: on a producer that is only iterated, for every Merk, the empty one *)
(* included, the first len() calls of next yield an item, the trunk first, *)
(* and every later call returns None.                                      *)
C21_IterationEnds ==
    (last.op \in {"next_chunk", "verify_trunk", "verify_leaf"} /\ ~last.random)
    => /\ last.none <=> steps > producer_len(snapshot)
       /\ steps = 1 => last.index = 0

(* the item at position i of the iteration of a new producer               *)
RECURSIVE iterated(_, _, _)
iterated(merk, p, i) ==
    IF i = 0 \/ p.index >= producer_len(p) THEN next_chunk(merk, p)
    ELSE iterated(merk, next_chunk(merk, p).producer, i - 1)

(* C22: whatever was called on the producer before, chunk(i) with          *)
(* i < len() returns what the iteration of a new producer yields at        *)
(* position i.                                                             *)
C22_RandomAccess ==
    (last.op = "chunk" /\ last.index < producer_len(snapshot))
    => \E r \in {iterated(SourceMerk, ChunkProducer_new(SourceMerk), last.index)} :
          last.chunk = r.chunk /\ last.err = r.err

C22_Witness ==
    /\ last.op = "chunk" /\ last.err = ""
    /\ last.index >= 2 /\ last.jump
    /\ Len(last.chunk) > 0
    /\ Len(last.chunk) < Len(snapshot.trunk)

(***************************************************************************)
(* The root leaves map.                                                    *)
(***************************************************************************)
(* distinct keys have distinct indexes and the indexes are 0 .. L-1 *)
DenseIndexes(rlk) ==
    /\ \A a \in DOMAIN rlk : \A b \in DOMAIN rlk : rlk[a] = rlk[b] => a = b
    /\ {rlk[k] : k \in DOMAIN rlk} = 0..(Cardinality(DOMAIN rlk) - 1)

(* C23: after every insert and every apply_batch call, the root leaves map *)
(* of the view the call worked on gives distinct keys distinct indexes,    *)
(* the indexes are exactly 0 .. L-1 for its L keys, and every key that was *)
(* in the map before the call is still there with the index it had.        *)
C23_RootLeafIndexes ==
    [][last'.op \in {"insert", "apply_batch"}
       => /\ DenseIndexes(PostView.root_leaf_keys)
          /\ \A k \in DOMAIN PreView.root_leaf_keys :
                /\ k \in DOMAIN PostView.root_leaf_keys
                /\ PostView.root_leaf_keys[k] = PreView.root_leaf_keys[k]]_vars

(* a root leaf registered first is inserted again while a second root leaf *)
(* is registered                                                           *)
C23_Witness ==
    /\ last.op = "insert" /\ last.err = "" /\ last.path = << >> /\ steps > 0
    /\ Cardinality(DOMAIN ViewOf(last.tx).root_leaf_keys) = 2
    /\ compress_path(<< >>, last.key) \in DOMAIN ViewOf(last.tx).root_leaf_keys
    /\ ViewOf(last.tx).root_leaf_keys[compress_path(<< >>, last.key)] = 0

(* C24: when the store is closed and opened again outside of a transaction *)
(* the root leaves map and the root tree of the opened store are those of  *)
(* the store before it was closed.                                         *)
C24_ReopenKeepsRootLeaves ==
    [][(last'.op = "reopen" /\ last'.err = "")
       => /\ root_leaf_keys' = root_leaf_keys
          /\ root_tree' = root_tree]_vars

(* the keys of the top-level subtrees of a view, and those that hold an    *)
(* entry                                                                   *)
TopLevelSubtrees(view) ==
    {k \in Keys : compress_path(<<k>>, NoKey) \in DOMAIN view.subtrees}

NonEmptyTopLevelSubtrees(view) ==
    {k \in TopLevelSubtrees(view) :
        \E x \in Keys : view.subtrees[compress_path(<<k>>, NoKey)][x].type # "None"}

(* C25: in every state the key of every top-level subtree that holds an    *)
(* entry is in the root leaves map, and every key of the map names a       *)
(* top-level subtree (a subtree that was inserted empty counts: the store  *)
(* registers it as a root leaf when it is inserted).                       *)
C25_RootLeavesAreTopLevelSubtrees ==
    /\ \A k \in NonEmptyTopLevelSubtrees(Committed) :
          compress_path(<< >>, k) \in DOMAIN root_leaf_keys
    /\ \A k \in Keys :
          compress_path(<< >>, k) \in DOMAIN root_leaf_keys
          => k \in TopLevelSubtrees(Committed)

(* C27: insert_if_not_exists returns false and changes nothing in the view *)
(* it works on whenever an element (a Reference that does not resolve      *)
(* included) is stored at (path, key); otherwise it does what insert does  *)
(* and returns true, or fails with the error of insert.                    *)
C27_InsertIfNotExists ==
    [][last'.op = "insert_if_not_exists"
       => IF get_raw(PreView.subtrees, last'.path, last'.key).err = ""
          THEN last'.err = "" /\ ~last'.inserted /\ PostView = PreView
          ELSE \E r \in {insert(PreView, subtrees, last'.path, last'.key,
                                 last'.element)} :
                 /\ last'.err = r.err
                 /\ last'.inserted <=> r.err = ""
                 /\ PostView = r.view]_vars

(***************************************************************************)
(* PathSpec: a store whose root leaves have keys of one and of two bytes.  *)
(***************************************************************************)
MaxPathSteps == 4

(* the key "aa" next to the key "a" *)
K11 == <<1, 1>>

PathInputs == {<< >>, <<K1>>, <<K11>>, <<K1, K1>>}

PathKeys(path) == IF path = << >> THEN {K1, K11} ELSE Keys

(* GroveDb::open on an empty directory *)
PathInit ==
    /\ subtrees = << >> /\ root_leaf_keys = << >> /\ root_tree = << >>
    /\ temp_subtrees = << >> /\ temp_root_leaf_keys = << >> /\ temp_root_tree = << >>
    /\ is_readonly = FALSE /\ meta = NoMeta /\ tx_meta = NoMeta
    /\ snapshot = EmptyView /\ steps = 0
    /\ last = [op |-> "open", tx |-> FALSE, path |-> << >>, key |-> NoKey,
               element |-> NoElem, ops |-> << >>, fault |-> "none", err |-> "",
               ro |-> FALSE]

(* db.insert(path, key, element, None) *)
PathInsert(path, key, element) ==
    /\ steps < MaxPathSteps
    /\ \E r \in {insert(Committed, subtrees, path, key, element)} :
          /\ SetCommitted(r.view)
          /\ UNCHANGED <<temp_subtrees, temp_root_leaf_keys, temp_root_tree>>
          /\ meta' = IF r.err = "" /\ element.type = "Tree"
                     THEN store_subtrees_keys_data(FALSE, meta) ELSE meta
          /\ last' = Called("insert", FALSE, path, key, element, << >>, "none", r.err)
          /\ steps' = StepsAfter(r, Committed, 1)
    /\ UNCHANGED <<is_readonly, tx_meta, snapshot>>

(* db.get(path, key, None) *)
PathGet(path, key) ==
    /\ last.op = "insert"
    /\ \E r \in {get(subtrees, path, key)} :
          last' = Called("get", FALSE, path, key, r.element, << >>, "none", r.err)
    /\ UNCHANGED <<subtrees, root_leaf_keys, root_tree,
                   temp_subtrees, temp_root_leaf_keys, temp_root_tree,
                   is_readonly, meta, tx_meta, snapshot, steps>>

PathNext ==
    \/ \E path \in PathInputs : \E key \in PathKeys(path) :
         \E element \in {empty_tree, Item(1)} : PathInsert(path, key, element)
    \/ \E path \in PathInputs \ {<< >>} : \E key \in Keys : PathGet(path, key)

PathSpec == PathInit /\ [][PathNext]_vars

(* what a reader sees at (path, key), but for the hash of a Tree *)
Seen(st, path, key) ==
    [err |-> get_raw(st, path, key).err,
     type |-> get_raw(st, path, key).element.type,
     val |-> get_raw(st, path, key).element.val]

(* C26: distinct paths have distinct subtree keys, so an insert of an Item *)
(* under one path changes what is read at no key of any other path.        *)
C26_PathsDoNotCollide ==
    [][(last'.op = "insert" /\ last'.err = "" /\ last'.element.type = "Item")
       => \A q \in PathInputs \ {<< >>, last'.path} :
             /\ compress_path(q, NoKey) # compress_path(last'.path, NoKey)
             /\ \A x \in Keys : Seen(subtrees', q, x) = Seen(subtrees, q, x)]_vars

(***************************************************************************)
(* Path queries: Element::get_path_query (subtree.rs).                     *)
(*                                                                         *)
(* A query is a sequence of disjoint items in key order, each a key or a   *)
(* range of keys, a direction, and a default subquery branch               *)
(* (subquery_key, subquery).  limit and offset are Option<u16>, None being *)
(* NoLimit.  The store is read through storage contexts: a path without a  *)
(* subtree reads as an empty Merk.                                         *)
(***************************************************************************)
MaxQueryKeys == 3

QueryKeys == {<<i>> : i \in 1..MaxQueryKeys}

U16 == 65536

QueryItemKey(key) == [range |-> FALSE, keys |-> {key}]

QueryItemRange(keys) == [range |-> TRUE, keys |-> keys]

NoSubquery == [items |-> << >>, left_to_right |-> TRUE, none |-> TRUE]

(* Query::new_with_direction and the inserts of its items *)
QueryOf(items, left_to_right) ==
    [items |-> items, left_to_right |-> left_to_right, none |-> FALSE]

(* Query with set_subquery_key / set_subquery *)
QueryWith(items, left_to_right, subquery_key, subquery) ==
    [items |-> items, left_to_right |-> left_to_right, none |-> FALSE,
     subquery_key |-> subquery_key, subquery |-> subquery]

SizedQuery(query, limit, offset) == [query |-> query, limit |-> limit, offset |-> offset]

(* subquery_paths_for_sized_query, without conditional branches; a         *)
(* subquery has no branch of its own                                       *)
subquery_paths_for_sized_query(query) ==
    IF "subquery" \in DOMAIN query
    THEN [subquery_key |-> query.subquery_key, subquery |-> query.subquery]
    ELSE [subquery_key |-> NoKey, subquery |-> NoSubquery]

(* `*x -= n` on a u16 behind an Option that is Some: a debug build panics  *)
(* on an overflow, a release build wraps                                   *)
SubU16(st, field, n) ==
    IF st[field] >= n THEN [st EXCEPT ![field] = @ - n]
    ELSE IF st.debug THEN [st EXCEPT !.err = "panic"]
    ELSE [st EXCEPT ![field] = @ - n + U16]

(* the Merk a storage context of the path reads *)
QueryMerk(store, path) ==
    IF compress_path(path, NoKey) \in DOMAIN store
    THEN store[compress_path(path, NoKey)] ELSE [k \in QueryKeys |-> NoElem]

(* basic_push *)
basic_push(st, element) ==
    IF st.offset \in {NoLimit, 0}
    THEN LET pushed == [st EXCEPT !.results = Append(@, element)]
         IN IF st.limit # NoLimit THEN SubU16(pushed, "limit", 1) ELSE pushed
    ELSE SubU16(st, "offset", 1)

Stepped(st, r) ==
    LET a == [st EXCEPT !.results = @ \o r.results]
        b == IF st.limit # NoLimit THEN SubU16(a, "limit", Len(r.results)) ELSE a
    IN IF b.err # "" THEN b
       ELSE IF st.offset # NoLimit THEN SubU16(b, "offset", r.skipped) ELSE b

RECURSIVE get_query_apply_function(_, _, _, _)
RECURSIVE query_item(_, _, _, _, _)
RECURSIVE query_range(_, _, _, _, _)
RECURSIVE query_items(_, _, _, _, _)

(* path_query_push *)
path_query_push(st, store, path, key, element, query) ==
    LET branch == subquery_paths_for_sized_query(query)
        path_vec == Append(path, key)
    IN IF element.type = "Tree"
       THEN IF ~branch.subquery.none
            THEN LET inner_path == IF branch.subquery_key # NoKey
                                   THEN Append(path_vec, branch.subquery_key)
                                   ELSE path_vec
                     r == get_query_apply_function(store, inner_path,
                              SizedQuery(branch.subquery, st.limit, st.offset), st.debug)
                 IN IF r.err # "" THEN [st EXCEPT !.err = r.err] ELSE Stepped(st, r)
            ELSE IF branch.subquery_key # NoKey
            THEN IF st.offset \in {NoLimit, 0}
                 THEN LET got == ElementGet(QueryMerk(store, path_vec), branch.subquery_key)
                      IN IF got.err # "" THEN [st EXCEPT !.err = got.err]
                         ELSE LET pushed == [st EXCEPT !.results = Append(@, got.element)]
                              IN IF st.limit # NoLimit THEN SubU16(pushed, "limit", 1)
                                 ELSE pushed
                 ELSE SubU16(st, "offset", 1)
            ELSE [st EXCEPT !.err = "InvalidPath"]
       ELSE basic_push(st, element)

(* the range branch of query_item: the keys of the item the iterator       *)
(* meets, in the direction of the query, while iter_is_valid_for_type      *)
(* (a limit that is not Some(0))                                           *)
query_range(st, store, path, query, keys) ==
    IF keys = << >> \/ st.err # "" \/ st.limit = 0 THEN st
    ELSE query_range(
           path_query_push(st, store, path, Head(keys),
                           QueryMerk(store, path)[Head(keys)], query),
           store, path, query, Tail(keys))

(* query_item *)
query_item(st, store, path, query, item) ==
    IF ~item.range
    THEN LET key == CHOOSE k \in item.keys : TRUE
             got == ElementGet(QueryMerk(store, path), key)
         IN IF got.err = "" THEN path_query_push(st, store, path, key, got.element, query)
            ELSE st
    ELSE query_range(st, store, path, query,
             LET ks == SortedKeys({k \in item.keys :
                                     QueryMerk(store, path)[k].type # "None"})
             IN IF query.left_to_right THEN ks ELSE Reverse(ks))

(* the loop of get_query_apply_function over the items *)
query_items(st, store, path, query, items) ==
    IF items = << >> \/ st.err # "" THEN st
    ELSE LET next == query_item(st, store, path, query, Head(items))
         IN IF next.err # "" \/ next.limit = 0 THEN next
            ELSE query_items(next, store, path, query, Tail(items))

(* get_query_apply_function with path_query_push: the elements and the     *)
(* number of skipped elements                                              *)
get_query_apply_function(store, path, sized_query, debug) ==
    LET st0 == [results |-> << >>, limit |-> sized_query.limit,
                offset |-> sized_query.offset, err |-> "", debug |-> debug]
        items == IF sized_query.query.left_to_right THEN sized_query.query.items
                 ELSE Reverse(sized_query.query.items)
        st == query_items(st0, store, path, sized_query.query, items)
    IN [err |-> st.err,
        results |-> IF st.err = "" THEN st.results ELSE << >>,
        skipped |-> IF st.err # "" \/ sized_query.offset = NoLimit THEN 0
                    ELSE sized_query.offset - st.offset]

(* Element::get_path_query *)
get_path_query(store, path_query, debug) ==
    get_query_apply_function(store, path_query.path, path_query.query, debug)

(***************************************************************************)
(* QuerySpec: one get_path_query on a store with the root leaf K1, whose   *)
(* entries are subtrees of items.                                          *)
(***************************************************************************)
(* the items of the subtree under `key`: under every key, or under the     *)
(* keys up to `key`                                                        *)
InnerKeys(profile, key) ==
    IF profile = "full" THEN QueryKeys ELSE {j \in QueryKeys : j[1] <= key[1]}

InnerMerk(profile, key) ==
    [j \in QueryKeys |->
        IF j \in InnerKeys(profile, key) THEN Item(10 * key[1] + j[1]) ELSE NoElem]

QueryStore(outer, profile) ==
    [cp \in {K1} \cup {compress_path(<<K1>>, k) : k \in outer} |->
        IF cp = K1
        THEN [k \in QueryKeys |->
                IF k \in outer THEN Tree(root_hash(InnerMerk(profile, k))) ELSE NoElem]
        ELSE InnerMerk(profile, <<cp[2]>>)]

QueryItemsInputs ==
    {<<QueryItemRange(QueryKeys)>>,
     <<QueryItemKey(<<1>>), QueryItemKey(<<3>>)>>,
     <<QueryItemRange({<<1>>, <<2>>})>>,
     <<QueryItemKey(<<1>>), QueryItemRange({<<2>>, <<3>>})>>}

LimitInputs == {NoLimit, 0, 1, 2, 4}

OffsetInputs == {NoLimit, 0, 1, 3, 10}

SizedPathQuery(path, sized_query) == [path |-> path, query |-> sized_query]

PathQueryInputs ==
    {SizedPathQuery(<<K1>>,
        SizedQuery(QueryWith(items, ltr, NoKey, QueryOf(subitems, subltr)), limit, offset)) :
       items \in QueryItemsInputs, ltr \in BOOLEAN,
       subitems \in QueryItemsInputs, subltr \in BOOLEAN,
       limit \in LimitInputs, offset \in OffsetInputs}

QueryInit ==
    /\ \E outer \in (SUBSET QueryKeys) \ {{}} : \E profile \in {"full", "upto"} :
         /\ subtrees = QueryStore(outer, profile)
         /\ root_tree = <<root_hash(QueryStore(outer, profile)[K1])>>
    /\ root_leaf_keys = (K1 :> 0)
    /\ temp_subtrees = << >> /\ temp_root_leaf_keys = << >> /\ temp_root_tree = << >>
    /\ is_readonly = FALSE /\ meta = NoMeta /\ tx_meta = NoMeta
    /\ snapshot = EmptyView /\ steps = 0
    /\ last = [op |-> "open", path_query |-> SizedPathQuery(<< >>, << >>),
               debug |-> FALSE, results |-> << >>, skipped |-> 0, err |-> ""]

(* db.get_path_query(&path_query, None), in a debug or a release build;    *)
(* the call changes nothing in the store, so a run is one call             *)
GetPathQuery(path_query, debug) ==
    /\ last.op = "open"
    /\ \E r \in {IF compress_path(path_query.path, NoKey) \in DOMAIN subtrees
                 THEN get_path_query(subtrees, path_query, debug)
                 ELSE [err |-> "InvalidPath", results |-> << >>, skipped |-> 0]} :
          last' = [op |-> "get_path_query", path_query |-> path_query, debug |-> debug,
                   results |-> r.results, skipped |-> r.skipped, err |-> r.err]
    /\ UNCHANGED <<subtrees, root_leaf_keys, root_tree,
                   temp_subtrees, temp_root_leaf_keys, temp_root_tree,
                   is_readonly, meta, tx_meta, snapshot, steps>>

QueryNext ==
    \E path_query \in PathQueryInputs : \E debug \in BOOLEAN :
        GetPathQuery(path_query, debug)

QuerySpec == QueryInit /\ [][QueryNext]_vars

(* the keys of a Merk the items of a query match, in the direction given *)
Matched(merk, items, left_to_right) ==
    LET ks == SortedKeys({k \in UNION {items[i].keys : i \in 1..Len(items)} :
                            merk[k].type # "None"})
    IN IF left_to_right THEN ks ELSE Reverse(ks)

RECURSIVE Flattened(_, _, _, _)
Flattened(store, path_query, left_to_right, keys) ==
    IF keys = << >> THEN << >>
    ELSE LET merk == QueryMerk(store, Append(path_query.path, Head(keys)))
             inner == Matched(merk, path_query.query.query.subquery.items, left_to_right)
         IN [i \in 1..Len(inner) |-> merk[inner[i]]]
            \o Flattened(store, path_query, left_to_right, Tail(keys))

(* the results of the subquery in all matched subtrees, one after the      *)
(* other, in the direction of the path query                               *)
AllResults(store, path_query) ==
    Flattened(store, path_query, path_query.query.query.left_to_right,
              Matched(QueryMerk(store, path_query.path), path_query.query.query.items,
                      path_query.query.query.left_to_right))

(* the elements offset+1 .. offset+limit of a sequence *)
Slice(s, offset, limit) ==
    LET from == IF offset = NoLimit THEN 0 ELSE offset
        to == IF limit = NoLimit \/ from + limit > Len(s) THEN Len(s) ELSE from + limit
    IN SubSeq(s, from + 1, to)

(* C28: a path query with a subquery returns the elements offset+1 ..      *)
(* offset+limit of the results of the subquery in all matched subtrees     *)
(* taken in key order (in reverse key order for a right-to-left query): at *)
(* most limit elements, a skipped count of at most offset, and nothing     *)
(* when offset exceeds the number of results.                              *)
C28_LimitOffsetSlice ==
    last.op = "get_path_query"
    => LET sized == last.path_query.query
           all == AllResults(subtrees, last.path_query)
       IN /\ last.err = ""
          /\ last.results = Slice(all, sized.offset, sized.limit)
          /\ sized.limit # NoLimit => Len(last.results) <= sized.limit
          /\ last.skipped <= (IF sized.offset = NoLimit THEN 0 ELSE sized.offset)
          /\ (sized.offset # NoLimit /\ sized.offset > Len(all)) => last.results = << >>

(* ------------------------------------------------------------------------ *)
(* costs/src/lib.rs: OperationCost and CostContext                          *)
(* ------------------------------------------------------------------------ *)

(* a u32 counter, kept as two 16-bit limbs (hi * 2^16 + lo) so that its    *)
(* whole range, the maximum included, is within the checker's integers     *)
u32(n) == [hi |-> n \div U16, lo |-> n % U16]

MaxU16 == U16 - 1

MaxU32 == [hi |-> U16 - 1, lo |-> U16 - 1]

(* struct OperationCost: seek_count and hash_node_calls are u16, the four  *)
(* byte counters are u32                                                    *)
U16Fields == {"seek_count", "hash_node_calls"}

U32Fields == {"storage_written_bytes", "storage_loaded_bytes",
              "loaded_bytes", "hash_byte_calls"}

OperationCost(seek_count, storage_written_bytes, storage_loaded_bytes, loaded_bytes, hash_byte_calls, hash_node_calls) ==
    [seek_count |-> seek_count,
     storage_written_bytes |-> storage_written_bytes,
     storage_loaded_bytes |-> storage_loaded_bytes,
     loaded_bytes |-> loaded_bytes,
     hash_byte_calls |-> hash_byte_calls,
     hash_node_calls |-> hash_node_calls]

(* #[derive(Default)] *)
DefaultCost == OperationCost(0, u32(0), u32(0), u32(0), u32(0), 0)

(* `a + b` on u16: an overflowing sum panics where overflow checks are on  *)
(* (a debug build) and wraps where they are off (a release build)          *)
add_u16(a, b, debug) ==
    IF a + b < U16 THEN [panic |-> FALSE, value |-> a + b]
    ELSE IF debug THEN [panic |-> TRUE, value |-> a]
    ELSE [panic |-> FALSE, value |-> (a + b) % U16]

(* `a + b` on u32 *)
add_u32(a, b, debug) ==
    LET lo == a.lo + b.lo
        hi == a.hi + b.hi + (lo \div U16)
    IN IF hi < U16 THEN [panic |-> FALSE, value |-> [hi |-> hi, lo |-> lo % U16]]
       ELSE IF debug THEN [panic |-> TRUE, value |-> a]
       ELSE [panic |-> FALSE, value |-> [hi |-> hi % U16, lo |-> lo % U16]]

(* impl Add for OperationCost: a new value, field by field with `+` *)
add(self, rhs, debug) ==
    LET seek_count == add_u16(self.seek_count, rhs.seek_count, debug)
        storage_written_bytes ==
            add_u32(self.storage_written_bytes, rhs.storage_written_bytes, debug)
        storage_loaded_bytes ==
            add_u32(self.storage_loaded_bytes, rhs.storage_loaded_bytes, debug)
        loaded_bytes == add_u32(self.loaded_bytes, rhs.loaded_bytes, debug)
        hash_byte_calls == add_u32(self.hash_byte_calls, rhs.hash_byte_calls, debug)
        hash_node_calls == add_u16(self.hash_node_calls, rhs.hash_node_calls, debug)
    IN [panic |-> \/ seek_count.panic \/ storage_written_bytes.panic
                  \/ storage_loaded_bytes.panic \/ loaded_bytes.panic
                  \/ hash_byte_calls.panic \/ hash_node_calls.panic,
        cost |-> OperationCost(seek_count.value, storage_written_bytes.value,
                               storage_loaded_bytes.value, loaded_bytes.value,
                               hash_byte_calls.value, hash_node_calls.value)]

(* impl AddAssign for OperationCost: the fields of self, one by one, `+=` *)
add_assign(self, rhs, debug) ==
    LET seek_count == add_u16(self.seek_count, rhs.seek_count, debug)
        storage_written_bytes ==
            add_u32(self.storage_written_bytes, rhs.storage_written_bytes, debug)
        storage_loaded_bytes ==
            add_u32(self.storage_loaded_bytes, rhs.storage_loaded_bytes, debug)
        loaded_bytes == add_u32(self.loaded_bytes, rhs.loaded_bytes, debug)
        hash_byte_calls == add_u32(self.hash_byte_calls, rhs.hash_byte_calls, debug)
        hash_node_calls == add_u16(self.hash_node_calls, rhs.hash_node_calls, debug)
    IN [panic |-> \/ seek_count.panic \/ storage_written_bytes.panic
                  \/ storage_loaded_bytes.panic \/ loaded_bytes.panic
                  \/ hash_byte_calls.panic \/ hash_node_calls.panic,
        cost |-> [self EXCEPT !.seek_count = seek_count.value,
                              !.storage_written_bytes = storage_written_bytes.value,
                              !.storage_loaded_bytes = storage_loaded_bytes.value,
                              !.loaded_bytes = loaded_bytes.value,
                              !.hash_byte_calls = hash_byte_calls.value,
                              !.hash_node_calls = hash_node_calls.value]]

(* struct CostContext<T> { value, cost } *)
CostContext(value, cost) == [value |-> value, cost |-> cost]

(* the outcome of a combinator: the context it returns (for                *)
(* unwrap_add_cost: the value it returns and the accumulator it leaves),   *)
(* or a panic                                                              *)
CostOutcome(panic, value, cost) == [panic |-> panic, value |-> value, cost |-> cost]

(* CostContext::unwrap_add_cost: *acc_cost += self.cost; self.value *)
unwrap_add_cost(self, acc_cost, debug) ==
    LET r == add_assign(acc_cost, self.cost, debug)
    IN CostOutcome(r.panic, self.value, r.cost)

(* CostContext::map: the cost is kept *)
map(self, f) == CostContext(f[self.value], self.cost)

(* a flat_map that forgets what the closure's context cost *)
flat_map_dropping_inner_cost(self, f, debug) ==
    CostOutcome(FALSE, f[self.value].value, self.cost)

(* CostContext::flat_map: let mut cost = self.cost;                        *)
(* let value = f(self.value).unwrap_add_cost(&mut cost)                    *)
flat_map(self, f, debug) ==
    unwrap_add_cost(f[self.value], self.cost, debug)

(* CostContext::add_cost: self.cost += cost *)
add_cost(self, cost, debug) ==
    LET r == add_assign(self.cost, cost, debug)
    IN CostOutcome(r.panic, self.value, r.cost)

(* Result<T, E>, with numbers for errors *)
ResultOk(x) == [ok |-> TRUE, x |-> x]

ResultErr(e) == [ok |-> FALSE, x |-> e]

(* CostResult::flat_map_ok: on Ok(x) as flat_map, on Err(e) the error with *)
(* the cost so far                                                         *)
flat_map_ok(self, f, debug) ==
    IF self.value.ok
    THEN unwrap_add_cost(f[self.value.x], self.cost, debug)
    ELSE CostOutcome(FALSE, ResultErr(self.value.x), self.cost)

(* CostContext<CostContext<T>>::flatten: the outer cost is added to a      *)
(* default accumulator, and the accumulator to the inner context           *)
flatten(self, debug) ==
    LET inner == unwrap_add_cost(self, DefaultCost, debug)
    IN IF inner.panic THEN CostOutcome(TRUE, inner.value.value, inner.cost)
       ELSE add_cost(inner.value, inner.cost, debug)

(* the costs of test_flat_map (3 and 7 loaded bytes), a cost with six      *)
(* different fields, and costs at and next to the maxima of both widths    *)
CostInputs ==
    {DefaultCost,
     OperationCost(0, u32(0), u32(0), u32(3), u32(0), 0),
     OperationCost(0, u32(0), u32(0), u32(7), u32(0), 0),
     OperationCost(1, u32(2), u32(3), u32(4), u32(5), 6),
     OperationCost(MaxU16, u32(0), u32(0), u32(0), u32(0), 0),
     OperationCost(0, u32(MaxU16), u32(0), u32(0), u32(0), MaxU16 - 1),
     OperationCost(0, u32(0), MaxU32, u32(0), u32(0), 0),
     OperationCost(2, u32(0), u32(0), MaxU32, [hi |-> MaxU16, lo |-> MaxU16 - 1], 0)}

(* the value of test_flat_map and the closure |x| x + 25 *)
ValueInputs == {75}

Closure(result, cost) == [x \in ValueInputs |-> CostContext(result[x], cost)]

OkPlus25 == [x \in ValueInputs |-> ResultOk(x + 25)]

Failing == [x \in ValueInputs |-> ResultErr(1)]

Plus25 == [x \in ValueInputs |-> x + 25]

CostCalled(op, debug, outer, inner, first_ok, r) ==
    [op |-> op, debug |-> debug, outer |-> outer, inner |-> inner,
     first_ok |-> first_ok, panic |-> r.panic, value |-> r.value, cost |-> r.cost]

CostInit ==
    /\ subtrees = << >> /\ root_leaf_keys = << >> /\ root_tree = << >>
    /\ temp_subtrees = << >> /\ temp_root_leaf_keys = << >> /\ temp_root_tree = << >>
    /\ is_readonly = FALSE /\ meta = NoMeta /\ tx_meta = NoMeta
    /\ snapshot = EmptyView /\ steps = 0
    /\ last = CostCalled("open", FALSE, DefaultCost, DefaultCost, TRUE,
                         CostOutcome(FALSE, 0, DefaultCost))

CostUnchanged ==
    UNCHANGED <<subtrees, root_leaf_keys, root_tree,
                temp_subtrees, temp_root_leaf_keys, temp_root_tree,
                is_readonly, meta, tx_meta, snapshot, steps>>

(* a + b *)
CostAdd(a, b, debug) ==
    /\ last.op = "open"
    /\ \E r \in {add(a, b, debug)} :
          last' = CostCalled("add", debug, a, b, TRUE, CostOutcome(r.panic, 0, r.cost))
    /\ CostUnchanged

(* a += b *)
CostAddAssign(a, b, debug) ==
    /\ last.op = "open"
    /\ \E r \in {add_assign(a, b, debug)} :
          last' = CostCalled("add_assign", debug, a, b, TRUE,
                             CostOutcome(r.panic, 0, r.cost))
    /\ CostUnchanged

(* CostContext { value, cost: b }.unwrap_add_cost(&mut a) *)
UnwrapAddCost(x, a, b, debug) ==
    /\ last.op = "open"
    /\ last' = CostCalled("unwrap_add_cost", debug, a, b, TRUE,
                          unwrap_add_cost(CostContext(x, b), a, debug))
    /\ CostUnchanged

(* CostContext { value, cost: a }.flat_map(|x| CostContext { x + 25, b }) *)
FlatMap(x, a, b, debug) ==
    /\ last.op = "open"
    /\ last' = CostCalled("flat_map", debug, a, b, TRUE,
                          flat_map(CostContext(x, a), Closure(Plus25, b), debug))
    /\ CostUnchanged

(* CostContext { value: Ok(x) or Err(e), cost: a }.flat_map_ok(f), where   *)
(* f returns an Ok or an Err with cost b                                   *)
FlatMapOk(first, result, a, b, debug) ==
    /\ last.op = "open"
    /\ last' = CostCalled("flat_map_ok", debug, a, b, first.ok,
                          flat_map_ok(CostContext(first, a), Closure(result, b), debug))
    /\ CostUnchanged

(* CostContext { value: CostContext { value, cost: b }, cost: a }.flatten() *)
Flatten(x, a, b, debug) ==
    /\ last.op = "open"
    /\ last' = CostCalled("flatten", debug, a, b, TRUE,
                          flatten(CostContext(CostContext(x, b), a), debug))
    /\ CostUnchanged

(* CostContext { value, cost: a }.add_cost(b) *)
AddCost(x, a, b, debug) ==
    /\ last.op = "open"
    /\ last' = CostCalled("add_cost", debug, a, b, TRUE,
                          add_cost(CostContext(x, a), b, debug))
    /\ CostUnchanged

(* CostContext { value, cost: a }.map(|x| x + 25) *)
Map(x, a, debug) ==
    /\ last.op = "open"
    /\ \E r \in {map(CostContext(x, a), Plus25)} :
          last' = CostCalled("map", debug, a, DefaultCost, TRUE,
                             CostOutcome(FALSE, r.value, r.cost))
    /\ CostUnchanged

(* a cost_return_on_error! that returns the accumulator as it was before   *)
(* the sub-operation                                                       *)
cost_return_on_error_without_cost(cost, result_with_cost, debug) ==
    IF result_with_cost.value.ok
    THEN [panic |-> FALSE, returned |-> FALSE, value |-> result_with_cost.value.x,
          cost |-> cost]
    ELSE [panic |-> FALSE, returned |-> TRUE, value |-> result_with_cost.value,
          cost |-> cost]

(* macro cost_return_on_error!(&mut cost, body): let result =              *)
(* result_with_cost.unwrap_add_cost(&mut cost); Ok(x) is the value of the  *)
(* macro, Err(e) makes the enclosing function return                       *)
(* Err(e).wrap_with_cost(cost)                                             *)
cost_return_on_error(cost, result_with_cost, debug) ==
    LET result == unwrap_add_cost(result_with_cost, cost, debug)
    IN IF result.panic
       THEN [panic |-> TRUE, returned |-> FALSE, value |-> result.value.x,
             cost |-> result.cost]
       ELSE IF result.value.ok
       THEN [panic |-> FALSE, returned |-> FALSE, value |-> result.value.x,
             cost |-> result.cost]
       ELSE [panic |-> FALSE, returned |-> TRUE, value |-> ResultErr(result.value.x),
             cost |-> result.cost]

(* a function whose accumulator holds a when it evaluates                  *)
(* cost_return_on_error!(&mut cost, CostContext { value: first, cost: b }) *)
CostReturnOnError(first, a, b, debug) ==
    /\ last.op = "open"
    /\ \E r \in {cost_return_on_error(a, CostContext(first, b), debug)} :
          last' = CostCalled("cost_return_on_error", debug, a, b, first.ok, r)
                      @@ [returned |-> r.returned, first |-> first]
    /\ CostUnchanged

CostNext ==
    \E a \in CostInputs : \E b \in CostInputs : \E debug \in BOOLEAN :
    \E x \in ValueInputs :
        \/ CostAdd(a, b, debug)
        \/ CostAddAssign(a, b, debug)
        \/ UnwrapAddCost(x, a, b, debug)
        \/ FlatMap(x, a, b, debug)
        \/ \E first \in {ResultOk(x), ResultErr(1)} : \E result \in {OkPlus25, Failing} :
              FlatMapOk(first, result, a, b, debug)
        \/ Flatten(x, a, b, debug)
        \/ AddCost(x, a, b, debug)
        \/ Map(x, a, debug)
        \/ \E first \in {ResultOk(x), ResultErr(1), ResultErr(2)} :
              CostReturnOnError(first, a, b, debug)

CostSpec == CostInit /\ [][CostNext]_vars

(* the sum of two counters as a number of any size: the limbs of the sum   *)
(* and what is carried out of the counter's width                          *)
WideSum(field, a, b) ==
    IF field \in U16Fields
    THEN [carry |-> (a[field] + b[field]) \div U16,
          value |-> (a[field] + b[field]) % U16]
    ELSE LET lo == a[field].lo + b[field].lo
             hi == a[field].hi + b[field].hi + (lo \div U16)
         IN [carry |-> hi \div U16, value |-> [hi |-> hi % U16, lo |-> lo % U16]]

(* the operations that combine an outer and an inner (or added) cost *)
CombinedCost ==
    /\ last.op \in {"flat_map", "flat_map_ok", "flatten", "add_cost", "unwrap_add_cost"}
    /\ last.first_ok
    /\ ~last.panic

C30_AddSaturates ==
    last.op \in {"add", "add_assign"}
    => /\ ~last.panic
       /\ \A field \in U16Fields \cup U32Fields :
             last.cost[field] =
                 IF WideSum(field, last.outer, last.inner).carry = 0
                 THEN WideSum(field, last.outer, last.inner).value
                 ELSE IF field \in U16Fields THEN MaxU16 ELSE MaxU32

FlaggedItem(item, flag) == [type |-> "Item", item |-> item, flag |-> flag]

FlaggedReference(path_reference, flag) ==
    [type |-> "Reference", path_reference |-> path_reference, flag |-> flag]

FlaggedTree(tree_hash, flag) == [type |-> "Tree", tree_hash |-> tree_hash, flag |-> flag]

(* integer_encoding::VarInt::required_space of a usize: the number of      *)
(* 7-bit groups of the number (one for zero)                               *)
RECURSIVE required_space(_)
required_space(n) == IF n < 128 THEN 1 ELSE 1 + required_space(n \div 128)

(* Element::serialized_byte_size *)
serialized_byte_size(element) ==
    IF element.type = "Item"
    THEN LET len == Len(element.item)
         IN len + required_space(len) + 1 + 1
    ELSE IF element.type = "Reference"
    THEN LET RECURSIVE sum(_)
             sum(path) ==
                 IF path = << >> THEN 0
                 ELSE Len(Head(path)) + required_space(Len(Head(path))) + sum(Tail(path))
         IN sum(element.path_reference) + required_space(Len(element.path_reference))
            + 1 + 1
    ELSE 32 + 1 + 1

(* bincode's with_varint_encoding of a length or a variant index: one byte *)
(* below 251, else the marker 251 and two little-endian bytes (below       *)
(* 2^16), or the marker 252 and four little-endian bytes                   *)
varint(n) ==
    IF n < 251 THEN <<n>>
    ELSE IF n < U16 THEN <<251, n % 256, n \div 256>>
    ELSE <<252, n % 256, (n \div 256) % 256, (n \div U16) % 256, n \div (U16 * 256)>>

(* Option<u8>: the tag 0, or the tag 1 and the byte *)
serialize_flag(flag) == IF flag = NoFlag THEN <<0>> ELSE <<1, flag>>

(* Vec<u8>: the length, then the bytes *)
serialize_bytes(bytes) == varint(Len(bytes)) \o bytes

RECURSIVE serialize_segments(_)
serialize_segments(path) ==
    IF path = << >> THEN << >>
    ELSE serialize_bytes(Head(path)) \o serialize_segments(Tail(path))

(* Element::serialize (derive(Serialize) through bincode with varint       *)
(* encoding): the variant index, the fields of the variant in order        *)
serialize_flagged(element) ==
    IF element.type = "Item"
    THEN varint(0) \o serialize_bytes(element.item) \o serialize_flag(element.flag)
    ELSE IF element.type = "Reference"
    THEN varint(1) \o varint(Len(element.path_reference))
         \o serialize_segments(element.path_reference) \o serialize_flag(element.flag)
    ELSE varint(2) \o element.tree_hash \o serialize_flag(element.flag)

(* byte strings of the lengths around the steps of both length encodings,  *)
(* and the item and the segments of test_serialization                     *)
Filled(n) == [i \in 1..n |-> 171]

ItemInputs == {Filled(n) : n \in {0, 1, 127, 128, 250, 251, 300}} \cup {<<171, 205, 239>>}

SegmentInputs == {Filled(n) : n \in {0, 128, 251}} \cup {<<0>>, <<171, 205>>, <<5>>}

MaxSegments == 2

RECURSIVE PathsOf(_)
PathsOf(n) ==
    IF n = 0 THEN {<< >>}
    ELSE PathsOf(n - 1)
         \cup {<<s>> \o p : s \in SegmentInputs, p \in {q \in PathsOf(n - 1) : Len(q) = n - 1}}

FlagInputs == {NoFlag, 0, 1, 255}

ElementInputs ==
    {FlaggedItem(item, flag) : item \in ItemInputs, flag \in FlagInputs}
    \cup {FlaggedReference(path, flag) :
             path \in PathsOf(MaxSegments) \cup {<<<<0>>, <<171, 205>>, <<5>>>>},
             flag \in FlagInputs}
    \cup {FlaggedTree([i \in 1..HashLen |-> b], flag) : b \in {0, 255}, flag \in FlagInputs}

SerInit ==
    /\ subtrees = << >> /\ root_leaf_keys = << >> /\ root_tree = << >>
    /\ temp_subtrees = << >> /\ temp_root_leaf_keys = << >> /\ temp_root_tree = << >>
    /\ is_readonly = FALSE /\ meta = NoMeta /\ tx_meta = NoMeta
    /\ snapshot = EmptyView /\ steps = 0
    /\ last = [op |-> "open", element |-> FlaggedItem(<< >>, NoFlag), serialized |-> << >>,
               serialized_byte_size |-> 0]

(* let serialized = element.serialize(); element.serialized_byte_size() *)
Serialize(element) ==
    /\ last.op = "open"
    /\ last' = [op |-> "serialize", element |-> element,
                serialized |-> serialize_flagged(element),
                serialized_byte_size |-> serialized_byte_size(element)]
    /\ UNCHANGED <<subtrees, root_leaf_keys, root_tree,
                   temp_subtrees, temp_root_leaf_keys, temp_root_tree,
                   is_readonly, meta, tx_meta, snapshot, steps>>

SerNext == \E element \in ElementInputs : Serialize(element)

SerSpec == SerInit /\ [][SerNext]_vars

(* C32: for every element, whatever its variant and with or without a      *)
(* flag, serialized_byte_size() is the number of bytes serialize() gives.  *)
C32_SizeIsSerializedLength ==
    last.op = "serialize" => last.serialized_byte_size = Len(last.serialized)

(* the three elements of test_serialization, byte for byte *)
TestSerialization ==
    /\ serialize_flagged(FlaggedTree([i \in 1..HashLen |-> 0], NoFlag))
          = <<2>> \o [i \in 1..HashLen |-> 0] \o <<0>>
    /\ serialize_flagged(FlaggedItem(<<171, 205, 239>>, NoFlag)) = <<0, 3, 171, 205, 239, 0>>
    /\ serialize_flagged(FlaggedReference(<<<<0>>, <<171, 205>>, <<5>>>>, NoFlag))
          = <<1, 3, 1, 0, 2, 171, 205, 1, 5, 0>>

(* without a flag and with every length below 128 the two agree *)
SizeAgreesOnShortUnflagged ==
    (/\ last.op = "serialize" /\ last.element.flag = NoFlag
     /\ last.element.type = "Item" => Len(last.element.item) < 128
     /\ last.element.type = "Reference"
           => \A i \in 1..Len(last.element.path_reference) :
                 Len(last.element.path_reference[i]) < 128)
    => last.serialized_byte_size = Len(last.serialized)

(* what apply_body did during the apply_batch call of the step *)
BodyLog ==
    apply_body(PreView.subtrees, "none",
               validate_batch(PreView, insert_unique_ops(<< >>, last'.ops)).ops,
               PreView.root_leaf_keys).log

EventsAt(log, kind, path) ==
    {i \in 1..Len(log) : log[i].kind = kind /\ log[i].path = path}

(* C33: during one successful apply_batch every subtree that an operation  *)
(* (of the batch or synthetic) is executed in is opened at most once and   *)
(* finalized exactly once, and its propagation Insert is emitted after     *)
(* every operation at its path has been executed.                          *)
C33_SubtreeFinalizedOnce ==
    [][(last'.op = "apply_batch" /\ last'.err = "")
       => \A i \in 1..Len(BodyLog) :
             (BodyLog[i].kind = "execute" /\ BodyLog[i].path # << >>)
             => /\ Cardinality(EventsAt(BodyLog, "open", BodyLog[i].path)) <= 1
                /\ Cardinality(EventsAt(BodyLog, "propagate", BodyLog[i].path)) = 1
                /\ \A j \in EventsAt(BodyLog, "propagate", BodyLog[i].path) : i < j]_vars

(* the same with a single operation executed at each path *)
SubtreeFinalizedOnceWhenAlone ==
    [][(/\ last'.op = "apply_batch" /\ last'.err = ""
        /\ \A i \in 1..Len(BodyLog) :
              Cardinality(EventsAt(BodyLog, "execute", BodyLog[i].path)) <= 1)
       => \A i \in 1..Len(BodyLog) :
             (BodyLog[i].kind = "execute" /\ BodyLog[i].path # << >>)
             => /\ Cardinality(EventsAt(BodyLog, "open", BodyLog[i].path)) <= 1
                /\ Cardinality(EventsAt(BodyLog, "propagate", BodyLog[i].path)) = 1
                /\ \A j \in EventsAt(BodyLog, "propagate", BodyLog[i].path) : i < j]_vars

(* ------------------------------------------------------------------------ *)
(* Propagation into a parent whose Tree element carries a flag              *)
(* ------------------------------------------------------------------------ *)

(* the fixture with its first root leaf, and in it the subtree [1][1]      *)
(* inserted with a flag                                                    *)
FlagInputs34 == {NoFlag, 7}

FlagFixture(flag) ==
    LET one == insert(EmptyView, << >>, << >>, K1, empty_tree).view
    IN insert(one, one.subtrees, <<K1>>, K1, new_tree_with_flag(ZeroHash, flag)).view

FlagInit ==
    /\ \E flag \in FlagInputs34 :
         /\ subtrees = FlagFixture(flag).subtrees
         /\ root_leaf_keys = FlagFixture(flag).root_leaf_keys
         /\ root_tree = FlagFixture(flag).root_tree
         /\ meta = [prefixes |-> DOMAIN FlagFixture(flag).subtrees, root_leafs |-> << >>]
    /\ temp_subtrees = << >> /\ temp_root_leaf_keys = << >> /\ temp_root_tree = << >>
    /\ is_readonly = FALSE /\ tx_meta = NoMeta
    /\ snapshot = EmptyView /\ steps = 0
    /\ last = [op |-> "open", tx |-> FALSE, path |-> << >>, key |-> NoKey,
               element |-> NoElem, ops |-> << >>, fault |-> "none", err |-> "",
               ro |-> FALSE]

FlagPaths == {<<K1>>, <<K1, K1>>, <<K1, K2>>}

FlagElements(path) ==
    IF Len(path) = 1 THEN {Item(1)} \cup {new_tree_with_flag(ZeroHash, f) : f \in FlagInputs34}
    ELSE {Item(1), Item(2)}

FlagBatchOps ==
    {GroveDbOp_insert(p, k, e) : p \in {<<K1, K1>>, <<K1, K2>>}, k \in Keys, e \in {Item(1), Item(2)}}
    \cup {GroveDbOp_delete(p, k) : p \in {<<K1, K1>>}, k \in Keys}

FlagNext ==
    \/ \E path \in FlagPaths : \E key \in Keys : \E element \in FlagElements(path) :
         Insert(path, key, element, FALSE)
    \/ \E op \in FlagBatchOps : ApplyBatch(<<op>>, FALSE)

FlagSpec == FlagInit /\ [][FlagNext]_vars

(* the subtrees the call of the step changed below [1], without the call   *)
(* writing the Tree element of the subtree itself                          *)
PropagatedInto ==
    {k \in Keys :
       /\ StorageMerk(subtrees, <<K1>>)[k].type = "Tree"
       /\ StorageMerk(subtrees', <<K1>>)[k].type = "Tree"
       /\ StorageMerk(subtrees', <<K1, k>>) # StorageMerk(subtrees, <<K1, k>>)
       /\ IF last'.op = "insert" THEN last'.path = <<K1, k>>
          ELSE \A i \in 1..Len(last'.ops) : last'.ops[i].path = <<K1, k>>}

(* C34: when insert or apply_batch propagates the new root hash of a       *)
(* subtree into its parent, the parent's Tree element for the subtree      *)
(* holds the new hash and the flag it had before the call.                 *)
C34_PropagationKeepsFlag ==
    [][(last'.op \in {"insert", "apply_batch"} /\ last'.err = "")
       => \A k \in PropagatedInto :
             /\ StorageMerk(subtrees', <<K1>>)[k].hash
                   = root_hash(StorageMerk(subtrees', <<K1, k>>))
             /\ StorageMerk(subtrees', <<K1>>)[k].flag
                   = StorageMerk(subtrees, <<K1>>)[k].flag]_vars

(* the number of nodes on the leftmost spine, from node i down *)
RECURSIVE LeftSpine(_, _)
LeftSpine(merk, i) == IF HasLeft(merk, i) THEN 1 + LeftSpine(merk, 2 * i) ELSE 1

PushTypes(ops) == {ops[k].type : k \in {j \in 1..Len(ops) : ops[j].op = "Push"}}

(* C35: for a Merk that is not empty, the trunk is the whole tree, with KV *)
(* nodes only, has_more is false and len() is 1 exactly when half the      *)
(* length of the leftmost spine (rounded down) is below MIN_TRUNK_HEIGHT;  *)
(* otherwise has_more is true and len() is the number of KV nodes of the   *)
(* trunk plus 2.                                                           *)
C35_TrunkAndLen ==
    (last.op # "open" /\ SourceMerk.order # << >>)
    => IF LeftSpine(SourceMerk, 1) \div 2 < MIN_TRUNK_HEIGHT
       THEN /\ ~create_trunk_proof(SourceMerk).has_more
            /\ snapshot.trunk = create_trunk_proof(SourceMerk).proof
            /\ PushTypes(snapshot.trunk) = {"KV"}
            /\ kv_keys(snapshot.trunk) = 1..Len(SourceMerk.order)
            /\ producer_len(snapshot) = 1
       ELSE /\ create_trunk_proof(SourceMerk).has_more
            /\ snapshot.trunk = create_trunk_proof(SourceMerk).proof
            /\ producer_len(snapshot) = Cardinality(kv_keys(snapshot.trunk)) + 2

(* a producer just built on a Merk whose leftmost spine has ten nodes or   *)
(* more: the trunk is abridged                                             *)
C35_Witness ==
    /\ last.op = "chunks"
    /\ LeftSpine(SourceMerk, 1) \div 2 >= MIN_TRUNK_HEIGHT
    /\ "Hash" \in PushTypes(snapshot.trunk)
    /\ producer_len(snapshot) > 2

(* and one on a Merk with a spine of at least five nodes emitted whole *)
WholeTreeTrunk ==
    /\ last.op = "chunks"
    /\ LeftSpine(SourceMerk, 1) >= MIN_TRUNK_HEIGHT
    /\ producer_len(snapshot) = 1

(* ------------------------------------------------------------------------ *)
(* The loop of apply_body, one iteration per step                          *)
(* ------------------------------------------------------------------------ *)

(* the state of the loop when apply_body enters it *)
LoopEntry(sorted_operations, temp_root_leaves) ==
    [ops |-> sorted_operations, temp_root_leaves |-> temp_root_leaves,
     temp_subtrees |-> << >>, prev_path |-> Last(sorted_operations).path,
     writes |-> << >>, err |-> "", first |-> TRUE, log |-> << >>]

LoopFaults == {"none", "open", "merk"}

(* apply_batch up to the call of apply_body, on a store of the fixture *)
LoopInit ==
    /\ \E view \in Fixtures : \E n \in 1..MaxBatch : \E ops \in BatchesOf(n) :
       \E fault \in LoopFaults :
         LET validated == validate_batch(view, insert_unique_ops(<< >>, ops))
         IN /\ validated.err = ""
            /\ subtrees = view.subtrees
            /\ root_leaf_keys = view.root_leaf_keys
            /\ root_tree = view.root_tree
            /\ meta = [prefixes |-> DOMAIN view.subtrees, root_leafs |-> << >>]
            /\ snapshot = [b |-> LoopEntry(validated.ops, view.root_leaf_keys),
                           before |-> validated.ops,
                           propagated |-> validated.ops,
                           exited |-> FALSE]
            /\ last = [op |-> "apply_body", tx |-> FALSE, path |-> << >>, key |-> NoKey,
                       element |-> NoElem, ops |-> ops, fault |-> fault, err |-> "",
                       ro |-> FALSE]
    /\ temp_subtrees = << >> /\ temp_root_leaf_keys = << >> /\ temp_root_tree = << >>
    /\ is_readonly = FALSE /\ tx_meta = NoMeta /\ steps = 0

LoopRunning == snapshot.b.err = "" /\ ~snapshot.exited

LoopUnchanged ==
    UNCHANGED <<subtrees, root_leaf_keys, root_tree, temp_subtrees,
                temp_root_leaf_keys, temp_root_tree, is_readonly, meta, tx_meta>>

(* one iteration that finds an operation to execute: the propagation test, *)
(* then the operation at the back of the tree                              *)
LoopIterate ==
    /\ LoopRunning
    /\ \E p \in {apply_body_propagate(snapshot.b)} :
         /\ p.err = "" /\ p.ops # << >>
         /\ snapshot' = [b |-> apply_body_execute(subtrees, last.fault, p),
                         before |-> snapshot.b.ops,
                         propagated |-> p.ops,
                         exited |-> FALSE]
         /\ last' = [last EXCEPT !.op = "iterate", !.path = Last(p.ops).path,
                                 !.key = Last(p.ops).key]
    /\ steps' = steps + 1
    /\ LoopUnchanged

(* the iteration that finds no operation left, or panics in the            *)
(* propagation, and leaves the loop                                        *)
LoopBreak ==
    /\ LoopRunning
    /\ \E p \in {apply_body_propagate(snapshot.b)} :
         /\ p.err # "" \/ p.ops = << >>
         /\ snapshot' = [b |-> p, before |-> snapshot.b.ops, propagated |-> p.ops,
                         exited |-> TRUE]
         /\ last' = [last EXCEPT !.op = "break", !.path = << >>, !.key = NoKey]
    /\ steps' = steps + 1
    /\ LoopUnchanged

LoopNext == LoopIterate \/ LoopBreak

LoopSpec == LoopInit /\ [][LoopNext]_vars /\ WF_vars(LoopNext)

(* the operations a sequence holds on top of another, as positions *)
AddedAt(longer, shorter) ==
    {i \in 1..Len(longer) :
       shorter = SubSeq(longer, 1, i - 1) \o SubSeq(longer, i + 1, Len(longer))}

(* what is still to do: every operation of the tree with the propagations  *)
(* its execution brings, and the propagation pending for the last one      *)
RECURSIVE OpsWeight(_)
OpsWeight(ops) ==
    IF ops = << >> THEN 0 ELSE Len(Head(ops).path) + 1 + OpsWeight(Tail(ops))

LoopMeasure(s) ==
    IF s.exited \/ s.b.err # "" THEN 0
    ELSE OpsWeight(s.b.ops) + (IF s.b.first THEN 0 ELSE Len(s.b.prev_path)) + 1

LoopTerminated == snapshot.exited \/ snapshot.b.err # ""

(* C36: the loop of apply_body terminates for every non-empty validated    *)
(* batch: the propagation after an executed operation at depth d > 0 adds  *)
(* at most one operation, at depth d - 1, an operation with empty path     *)
(* adds none, every iteration lowers what is still to do, the loop exits   *)
(* only by an error or with the operation tree empty, and it does exit.    *)
C36_LoopTerminates ==
    /\ [][/\ LoopMeasure(snapshot') < LoopMeasure(snapshot)
          /\ IF snapshot.b.first \/ snapshot.b.prev_path = << >>
             THEN snapshot'.propagated = snapshot'.before
             ELSE \/ snapshot'.b.err = "Panic"
                  \/ /\ Len(snapshot'.propagated) = Len(snapshot'.before) + 1
                     /\ \E i \in AddedAt(snapshot'.propagated, snapshot'.before) :
                          Len(snapshot'.propagated[i].path)
                             = Len(snapshot.b.prev_path) - 1
          /\ (snapshot'.exited /\ snapshot'.b.err = "") => snapshot'.b.ops = << >>]_vars
    /\ <>LoopTerminated

(* a batch whose loop ran propagated operations down to the root and left  *)
(* with the tree empty                                                     *)
C36_Witness ==
    /\ snapshot.exited /\ snapshot.b.err = "" /\ snapshot.b.ops = << >>
    /\ steps > Len(last.ops) + 2
    /\ last.op = "break"
    /\ \E i \in 1..Len(last.ops) : Len(last.ops[i].path) = 2

(* ------------------------------------------------------------------------ *)
(* What apply_batch leaves alone                                           *)
(* ------------------------------------------------------------------------ *)
(* the subtree paths of the model's stores *)
FramePaths == {<<a>> : a \in Keys} \cup {<<a, b>> : a \in Keys, b \in Keys}
              \cup {<<a, b, c>> : a \in Keys, b \in Keys, c \in Keys}

(* (path, key) is named by an operation of the batch *)
Targeted(ops, path, key) ==
    \E i \in 1..Len(ops) : ops[i].path = path /\ ops[i].key = key

(* (path, key) is the Tree entry of a subtree an operation works in, or of *)
(* an ancestor of one                                                      *)
AncestorEntry(ops, path, key) ==
    \E i \in 1..Len(ops) : IsPrefix(Append(path, key), ops[i].path)

(* path lies in the subtree under an entry the batch deletes or overwrites *)
InsideRemoved(ops, path) ==
    \E i \in 1..Len(ops) : IsPrefix(Append(ops[i].path, ops[i].key), path)

(* C37: a successful apply_batch leaves unchanged every stored element     *)
(* whose (path, key) is not targeted by an operation of the batch, is not  *)
(* the Tree entry of an ancestor of a touched subtree and is not inside a  *)
(* subtree the batch deletes or overwrites.                                *)
C37_BatchFrame ==
    [][(last'.op = "apply_batch" /\ last'.err = "")
       => \A path \in FramePaths : \A key \in Keys :
             (/\ ~Targeted(last'.ops, path, key)
              /\ ~AncestorEntry(last'.ops, path, key)
              /\ ~InsideRemoved(last'.ops, path))
             => StorageMerk(PostView.subtrees, path)[key]
                   = StorageMerk(PreView.subtrees, path)[key]]_vars

(* the keys the call of the step added to the root leaves of its view *)
NewRootLeaves == (DOMAIN PostView.root_leaf_keys) \ (DOMAIN PreView.root_leaf_keys)

(* C38: a root leaf is registered by the insertion of a Tree only: insert  *)
(* with an empty path and an element that is no Tree fails with            *)
(* InvalidPath and adds none, and apply_batch adds a key to the root       *)
(* leaves only when the batch holds an Insert of a Tree at the empty path  *)
(* under that key.                                                         *)
C38_RootLeafIsTreeInsert ==
    [][/\ (last'.op = "insert" /\ last'.path = << >> /\ last'.element.type # "Tree")
            => (last'.err = "InvalidPath" /\ NewRootLeaves = {})
       /\ last'.op = "insert"
            => \A k \in NewRootLeaves :
                   last'.path = << >> /\ last'.key = k /\ last'.element.type = "Tree"
       /\ last'.op = "apply_batch"
            => \A k \in NewRootLeaves :
                   \E i \in 1..Len(last'.ops) :
                      /\ last'.ops[i].path = << >> /\ last'.ops[i].key = k
                      /\ last'.ops[i].op = "Insert"
                      /\ last'.ops[i].element.type = "Tree"]_vars

(* the part of it about insert *)
InsertRegistersTreesOnly ==
    [][last'.op = "insert"
         => /\ (last'.path = << >> /\ last'.element.type # "Tree")
                  => (last'.err = "InvalidPath" /\ NewRootLeaves = {})
            /\ \A k \in NewRootLeaves :
                  last'.path = << >> /\ last'.key = k /\ last'.element.type = "Tree"]_vars

(* C39: a sized query with limit Some(0) returns no element, whatever the  *)
(* kinds of its items, and no evaluation takes the limit or the offset     *)
(* below zero (the subtraction that does panics in a debug build).         *)
C39_ZeroLimitIsEmpty ==
    last.op = "get_path_query"
    => /\ last.err # "panic"
       /\ last.path_query.query.limit = 0
            => (last.err = "" /\ last.results = << >>)

(* the same for queries made of ranges only, at both levels *)
ZeroLimitIsEmptyForRanges ==
    (/\ last.op = "get_path_query"
     /\ \A i \in 1..Len(last.path_query.query.query.items) :
           last.path_query.query.query.items[i].range
     /\ \A i \in 1..Len(last.path_query.query.query.subquery.items) :
           last.path_query.query.query.subquery.items[i].range)
    => /\ last.err # "panic"
       /\ last.path_query.query.limit = 0
            => (last.err = "" /\ last.results = << >>)

(* ------------------------------------------------------------------------ *)
(* grovedb/src/worst_case_costs.rs: the worst-case estimators              *)
(* ------------------------------------------------------------------------ *)

(* An estimator works on `cost: &mut OperationCost`.  `panic` tells that   *)
(* an arithmetic check of a debug build stopped it; `underflow` records    *)
(* that an unsigned subtraction went below zero (a release build wraps it) *)
Estimate(cost, debug) == [cost |-> cost, debug |-> debug, panic |-> FALSE, underflow |-> FALSE]

worst_case_encoded_link_size(key_size) == 1 + 1 + key_size + 32 + 1 + 1

worst_case_encoded_kv_node_size(max_element_size) == 32 + 32 + max_element_size

(* `cost.field += n` on a u16 field *)
AddAssignU16(e, field, n) ==
    IF e.panic THEN e
    ELSE LET r == add_u16(e.cost[field], n, e.debug)
         IN [e EXCEPT !.panic = r.panic, !.cost[field] = r.value]

(* `cost.field += n` on a u32 field *)
AddAssignU32(e, field, n) ==
    IF e.panic THEN e
    ELSE LET r == add_u32(e.cost[field], n, e.debug)
         IN [e EXCEPT !.panic = r.panic, !.cost[field] = r.value]

(* `cost.field -= n` on a u16 field *)
SubAssignU16(e, field, n) ==
    IF e.panic THEN e
    ELSE IF e.cost[field] >= n THEN [e EXCEPT !.cost[field] = @ - n]
    ELSE IF e.debug THEN [e EXCEPT !.panic = TRUE, !.underflow = TRUE]
    ELSE [e EXCEPT !.underflow = TRUE, !.cost[field] = @ - n + U16]

(* `for _ in 0..times { cost.field += n }` on a u16 field, n below 2^15:   *)
(* the sum of the wrapping additions, or the panic of the first one that   *)
(* overflows                                                               *)
AddTimesU16(e, field, n, times) ==
    IF e.panic THEN e
    ELSE IF times.hi = 0 /\ e.cost[field] + n * times.lo < U16
    THEN [e EXCEPT !.cost[field] = @ + n * times.lo]
    ELSE IF e.debug /\ n > 0 THEN [e EXCEPT !.panic = TRUE]
    ELSE [e EXCEPT !.cost[field] = (@ + ((n * times.lo) % U16)) % U16]

(* the same on a u32 field *)
AddTimesU32(e, field, n, times) ==
    IF e.panic THEN e
    ELSE LET lo == n * times.lo
             hi == n * times.hi + (lo \div U16)
             sum_lo == e.cost[field].lo + (lo % U16)
             sum_hi == e.cost[field].hi + (hi % U16) + (sum_lo \div U16)
         IN IF hi < U16 /\ sum_hi < U16
            THEN [e EXCEPT !.cost[field] = [hi |-> sum_hi, lo |-> sum_lo % U16]]
            ELSE IF e.debug /\ n > 0 THEN [e EXCEPT !.panic = TRUE]
            ELSE [e EXCEPT !.cost[field] = [hi |-> sum_hi % U16, lo |-> sum_lo % U16]]

(* `for _ in 0..n { add_worst_case_get_merk_node(cost, key_size, size) }` *)
add_worst_case_get_merk_node(e, key_size, max_element_size, times) ==
    AddTimesU32(AddTimesU16(e, "seek_count", 1, times), "storage_loaded_bytes",
                2 * worst_case_encoded_link_size(key_size)
                  + worst_case_encoded_kv_node_size(max_element_size),
                times)

(* (1.44 * (n as f32).log2()).floor() as u32: the least n of every height  *)
(* is the ceiling of 2^(height / 1.44); `as u32` takes the -inf of n = 0   *)
(* to 0                                                                    *)
HeightThresholds == <<2, 3, 5, 7, 12, 18, 30, 48>>

max_tree_height(max_element_number) ==
    Cardinality({h \in DOMAIN HeightThresholds : HeightThresholds[h] <= max_element_number})

(* `max_tree_height - 1` on u32 *)
max_number_of_walks(e, height) ==
    IF height >= 1 THEN [e |-> e, walks |-> u32(height - 1)]
    ELSE IF e.debug THEN [e |-> [e EXCEPT !.panic = TRUE, !.underflow = TRUE], walks |-> u32(0)]
    ELSE [e |-> [e EXCEPT !.underflow = TRUE], walks |-> MaxU32]

(* the body of add_worst_case_insert_merk_node after the walks are counted *)
insert_merk_node_walks(e, max_element_size, walks) ==
    LET max_key_size == 256
        prefixed_key_size == 32 + max_key_size
        value_size == 2 * worst_case_encoded_link_size(max_key_size)
                      + worst_case_encoded_kv_node_size(max_element_size)
        loaded == add_worst_case_get_merk_node(e, max_key_size, max_element_size, walks)
        built == AddAssignU16(loaded, "hash_node_calls", 2)
    IN AddTimesU32(
         AddTimesU16(AddTimesU16(built, "seek_count", 1, walks), "hash_node_calls", 1, walks),
         "storage_written_bytes", prefixed_key_size + value_size, walks)

add_worst_case_insert_merk_node(e, max_element_size, max_element_number) ==
    LET w == max_number_of_walks(e, max_tree_height(max_element_number))
    IN IF w.e.panic THEN w.e ELSE insert_merk_node_walks(w.e, max_element_size, w.walks)

add_merk_worst_case_insert_reference(e, max_element_size, max_element_number) ==
    SubAssignU16(add_worst_case_insert_merk_node(e, max_element_size, max_element_number),
                 "hash_node_calls", 1)

(* node_hash_update_count: (HASH_LENGTH * 3 - 64 + 1) / 64 *)
node_hash_update_count == (HashLen * 3 - 64 + 1) \div 64

(* MerkWorstCaseInput *)
MaxElementsNumber(n) == [kind |-> "MaxElementsNumber", n |-> n]

NumberOfLevels(n) == [kind |-> "NumberOfLevels", n |-> n]

(* ((n + 1) as f32).log2().ceil() as u32 *)
RECURSIVE CeilLog2(_, _)
CeilLog2(n, l) == IF 2 ^ l >= n THEN l ELSE CeilLog2(n, l + 1)

add_worst_case_merk_propagate(e, input) ==
    LET levels == IF input.kind = "MaxElementsNumber" THEN CeilLog2(input.n + 1, 0)
                  ELSE input.n
        nodes_updated == levels + 2
    IN AddAssignU16(AddAssignU32(e, "storage_written_bytes", u32(nodes_updated * 32)),
                    "hash_node_calls", nodes_updated * node_hash_update_count)

(* ((bytes_len - 64 + 1) / 64) as u16, on usize: below 64 the subtraction  *)
(* wraps to 2^64 - (64 - bytes_len) in a release build; adding 1 gives 0   *)
(* for 63 and a number whose division by 64 is 2^58 - 1 otherwise, and the *)
(* cast keeps its low 16 bits                                              *)
element_hash_calls(e, bytes_len) ==
    IF bytes_len >= 64 THEN [e |-> e, calls |-> ((bytes_len - 64 + 1) \div 64) % U16]
    ELSE IF e.debug THEN [e |-> [e EXCEPT !.panic = TRUE, !.underflow = TRUE], calls |-> 0]
    ELSE [e |-> [e EXCEPT !.underflow = TRUE],
          calls |-> IF bytes_len = 63 THEN 0 ELSE U16 - 1]

add_worst_case_merk_insert(e, key, value, input) ==
    LET bytes_len == Len(key) + Len(serialize_flagged(value))
        written == AddAssignU32(e, "storage_written_bytes", u32(bytes_len))
        h == element_hash_calls(written, bytes_len)
    IN IF written.panic THEN written
       ELSE IF h.e.panic THEN h.e
       ELSE add_worst_case_merk_propagate(AddAssignU16(h.e, "hash_node_calls", h.calls), input)

(* The inputs: element counts up to MaxElementNumber, keys and elements on *)
(* both sides of 64 serialized bytes, and a cost that is fresh or has its  *)
(* hash_node_calls used up                                                 *)
MaxElementNumber == 12

ElementSizeInputs == {0, 60, 1000}

HashNodeCallsInputs == {0, 5, U16 - 1}

EstCostInputs == {[DefaultCost EXCEPT !.hash_node_calls = h] : h \in HashNodeCallsInputs}

EstKeyInputs == {Filled(n) : n \in {0, 1, 8, 32, 58, 59, 60, 61, 64}}

EstValueInputs ==
    {FlaggedItem(Filled(n), NoFlag) : n \in {0, 1, 60, 127}}
    \cup {FlaggedTree([i \in 1..HashLen |-> 0], NoFlag)}

MerkWorstCaseInputs ==
    {MaxElementsNumber(n) : n \in 0..MaxElementNumber} \cup {NumberOfLevels(n) : n \in 0..3}

EstCalled(op, before, n, bytes_len, e) ==
    [op |-> op, before |-> before, max_element_number |-> n, bytes_len |-> bytes_len,
     debug |-> e.debug, panic |-> e.panic, underflow |-> e.underflow, cost |-> e.cost]

EstInit ==
    /\ subtrees = << >> /\ root_leaf_keys = << >> /\ root_tree = << >>
    /\ temp_subtrees = << >> /\ temp_root_leaf_keys = << >> /\ temp_root_tree = << >>
    /\ is_readonly = FALSE /\ meta = NoMeta /\ tx_meta = NoMeta
    /\ snapshot = EmptyView /\ steps = 0
    /\ last = EstCalled("open", DefaultCost, 0, 0, Estimate(DefaultCost, FALSE))

EstUnchanged ==
    UNCHANGED <<subtrees, root_leaf_keys, root_tree,
                temp_subtrees, temp_root_leaf_keys, temp_root_tree,
                is_readonly, meta, tx_meta, snapshot, steps>>

AddWorstCaseInsertMerkNode(cost, max_element_size, max_element_number, debug) ==
    /\ last.op = "open"
    /\ last' = EstCalled("add_worst_case_insert_merk_node", cost, max_element_number, 0,
                   add_worst_case_insert_merk_node(Estimate(cost, debug), max_element_size,
                                                   max_element_number))
    /\ EstUnchanged

AddMerkWorstCaseInsertReference(cost, max_element_size, max_element_number, debug) ==
    /\ last.op = "open"
    /\ last' = EstCalled("add_merk_worst_case_insert_reference", cost, max_element_number, 0,
                   add_merk_worst_case_insert_reference(Estimate(cost, debug),
                                                        max_element_size, max_element_number))
    /\ EstUnchanged

AddWorstCaseMerkInsert(cost, key, value, input, debug) ==
    /\ last.op = "open"
    /\ last' = EstCalled("add_worst_case_merk_insert", cost, 0,
                   Len(key) + Len(serialize_flagged(value)),
                   add_worst_case_merk_insert(Estimate(cost, debug), key, value, input))
    /\ EstUnchanged

EstNext ==
    \E cost \in EstCostInputs : \E debug \in BOOLEAN :
       \/ \E size \in ElementSizeInputs : \E n \in 0..MaxElementNumber :
            AddWorstCaseInsertMerkNode(cost, size, n, debug)
       \/ \E size \in ElementSizeInputs : \E n \in 0..MaxElementNumber :
            AddMerkWorstCaseInsertReference(cost, size, n, debug)
       \/ \E key \in EstKeyInputs : \E value \in EstValueInputs :
          \E input \in MerkWorstCaseInputs :
            AddWorstCaseMerkInsert(cost, key, value, input, debug)

EstSpec == EstInit /\ [][EstNext]_vars

(* C40: the estimators never take an unsigned subtraction below zero:      *)
(* add_worst_case_insert_merk_node is defined for 0 and 1 elements,        *)
(* add_worst_case_merk_insert is defined when the key and the serialized   *)
(* element are below 63 bytes together, and after                          *)
(* add_merk_worst_case_insert_reference hash_node_calls is not below its   *)
(* value before the call.                                                  *)
C40_NoUnsignedUnderflow ==
    /\ ~last.underflow
    /\ (last.op = "add_worst_case_insert_merk_node" /\ last.max_element_number \in {0, 1}
        /\ last.before.hash_node_calls = 0)
         => ~last.panic
    /\ (last.op = "add_worst_case_merk_insert" /\ last.bytes_len < 63
        /\ last.before.hash_node_calls = 0)
         => ~last.panic
    /\ (last.op = "add_merk_worst_case_insert_reference" /\ ~last.panic)
         => last.cost.hash_node_calls >= last.before.hash_node_calls

(* where the subtractions stay above zero: trees of two elements or more   *)
(* and at least 64 bytes of key and element                                *)
NoUnderflowOnLargeInputs ==
    (\/ last.op \in {"add_worst_case_insert_merk_node", "add_merk_worst_case_insert_reference"}
        /\ last.max_element_number >= 2
     \/ last.op = "add_worst_case_merk_insert" /\ last.bytes_len >= 64)
    => ~last.underflow

(* a fresh cost estimated for a one-element tree in a release build: the   *)
(* walks wrap to 2^32 - 1 and the counters with them                       *)
WrappedWalks ==
    /\ last.op = "add_worst_case_insert_merk_node" /\ last.max_element_number = 1
    /\ ~last.debug /\ last.underflow /\ ~last.panic
    /\ last.before = DefaultCost
    /\ last.cost.seek_count = U16 - 2
    /\ last.cost.hash_node_calls = 1

====
